---- MODULE Spec2Model ----
(***************************************************************************)
(* Model of diwise/api-rec: the observation pipeline and the listings.     *)
(*                                                                         *)
(*   presentation/api/api.go   createObservation, handleCloudevents and    *)
(*                             the envelope decoders the handler calls;    *)
(*                             createEntity, getEntities, getObservations  *)
(*   application (messages)    MessageAccepted / FunctionUpdated decoders  *)
(*                             with the numeric normalizer                 *)
(*   infrastructure/database   AddObservation: the in-window lookup, the   *)
(*                             value comparison and the insert; AddEntity, *)
(*                             Seed, GetEntity, GetEntities,               *)
(*                             GetChildEntities, GetObservations           *)
(*                                                                         *)
(* Times are whole seconds.  Numeric values are fixed-point integers in    *)
(* thousandths (42000 is 42.0, 1232 is 1.232).  An optional field (a Go    *)
(* pointer, a nullable column) is Nil or Ptr(x).                           *)
(***************************************************************************)
EXTENDS Integers, Sequences, FiniteSets, TLC

VARIABLES
    rows,        \* table observations, in observation_id (insertion) order
    pc,          \* per request goroutine: position inside the handler
    req,         \* per request goroutine: the request being served
    idx,         \* per request goroutine: loop index in AddObservation
    found,       \* per request goroutine: what the last SELECT of the loop returned
    outcomes,    \* per request goroutine: what happened to each observation so far
    err,         \* per request goroutine: the error AddObservation returned
    status,      \* per request goroutine: the HTTP status written
    before,      \* per request goroutine: rows when AddObservation was entered
    cancelled,   \* per request goroutine: the request context is cancelled
    clock,       \* wall clock (time.Now), seconds
    decoded,     \* per request goroutine: what a decoder called directly returned
    entity,      \* table entity, in node_id (insertion) order
    relation,    \* table relation: set of <<parent, child>> node ids
    listing,     \* per request goroutine: the response of a listing request
    traverse,    \* per request goroutine: the recursive query of GetChildEntities
    rounded      \* per request goroutine: the last call of mapFloatValue

vars == <<rows, pc, req, idx, found, outcomes, err, status, before, cancelled, clock,
         decoded, entity, relation, listing, traverse, rounded>>

(***************************************************************************)
(* Bounds                                                                  *)
(***************************************************************************)
MaxRows == 3                     \* rows the observations table may hold

Procs == {1, 2}                  \* request goroutines
Times == {0, 30, 45, 60, 61}     \* observation times used by the inputs

Nil == <<>>                      \* nil pointer, SQL NULL
Ptr(x) == <<x>>                  \* &x
Deref(p) == p[1]                 \* *p

NoError == "nil"

(***************************************************************************)
(* database.go: AddObservation's statements                                *)
(***************************************************************************)
\* o.ObservationTime.Add(-1*time.Minute): the window is one minute
Window == 60

Triple(v, vs, vb) == [Value |-> v, ValueString |-> vs, ValueBoolean |-> vb]

Observation(t, tr, qk, sid) ==
    [ObservationTime |-> t, Value |-> tr.Value, ValueString |-> tr.ValueString,
     ValueBoolean |-> tr.ValueBoolean, QuantityKind |-> qk, SensorId |-> sid]

SensorObservation(dev, obs) ==
    [Format |-> "rec3.1.1", DeviceID |-> dev, Observations |-> obs]

\* the zero value database.SensorObservation{}
EmptySensorObservation == [Format |-> "", DeviceID |-> "", Observations |-> <<>>]

\* the row INSERT INTO observations writes for observation o of device dev
Row(dev, o) ==
    [device_id |-> dev, sensor_id |-> o.SensorId, observation_time |-> o.ObservationTime,
     value |-> o.Value, value_string |-> o.ValueString, value_boolean |-> o.ValueBoolean,
     quantity_kind |-> o.QuantityKind]

\* mutant: the window includes its boundary (observation_time >= $4)
SelectWhere_Inclusive(tbl, dev, sid, qk, notBefore) ==
    {i \in DOMAIN tbl : /\ tbl[i].device_id = dev
                        /\ tbl[i].sensor_id = sid
                        /\ tbl[i].quantity_kind = qk
                        /\ tbl[i].observation_time >= notBefore}

\* WHERE device_id = $1 AND sensor_id = $2 AND quantity_kind = $3 AND observation_time > $4
SelectWhere(tbl, dev, sid, qk, notBefore) ==
    {i \in DOMAIN tbl : /\ tbl[i].device_id = dev
                        /\ tbl[i].sensor_id = sid
                        /\ tbl[i].quantity_kind = qk
                        /\ tbl[i].observation_time > notBefore}

\* mutant: ORDER BY observation_time ASC, the earliest row of the window
SelectLast_Ascending(tbl, dev, sid, qk, notBefore) ==
    LET m == SelectWhere(tbl, dev, sid, qk, notBefore)
    IN  {i \in m : \A j \in m : tbl[j].observation_time >= tbl[i].observation_time}

\* mutant: the lookup leaves quantity_kind out of its WHERE clause
SelectLast_AnyKind(tbl, dev, sid, qk, notBefore) ==
    LET m == {i \in DOMAIN tbl : /\ tbl[i].device_id = dev
                                 /\ tbl[i].sensor_id = sid
                                 /\ tbl[i].observation_time > notBefore}
    IN  {i \in m : \A j \in m : tbl[j].observation_time <= tbl[i].observation_time}

\* ORDER BY observation_time DESC LIMIT 1: any row of greatest time (the order
\* of rows with equal observation_time is not specified by the query)
SelectLast(tbl, dev, sid, qk, notBefore) ==
    LET m == SelectWhere(tbl, dev, sid, qk, notBefore)
    IN  {i \in m : \A j \in m : tbl[j].observation_time <= tbl[i].observation_time}

\* mutant: the pointers are compared, not what they point to
isValueEqual_Pointers(observation, v, vs, vb) ==
    /\ v = Nil /\ observation.Value = Nil
    /\ vs = Nil /\ observation.ValueString = Nil
    /\ vb = Nil /\ observation.ValueBoolean = Nil

\* mutant: a field that is absent on one side only does not count
isValueEqual_AbsentIgnored(observation, v, vs, vb) ==
    LET eqV  == IF v # Nil /\ observation.Value # Nil THEN Deref(v) = Deref(observation.Value)
                ELSE TRUE
        eqVs == IF vs # Nil /\ observation.ValueString # Nil
                THEN Deref(vs) = Deref(observation.ValueString)
                ELSE TRUE
        eqVb == IF vb # Nil /\ observation.ValueBoolean # Nil
                THEN Deref(vb) = Deref(observation.ValueBoolean)
                ELSE TRUE
    IN  eqV /\ eqVs /\ eqVb

isValueEqual(observation, v, vs, vb) ==
    LET eqV  == IF v = Nil /\ observation.Value = Nil THEN TRUE
                ELSE IF v # Nil /\ observation.Value # Nil THEN Deref(v) = Deref(observation.Value)
                ELSE FALSE
        eqVs == IF vs = Nil /\ observation.ValueString = Nil THEN TRUE
                ELSE IF vs # Nil /\ observation.ValueString # Nil
                     THEN Deref(vs) = Deref(observation.ValueString)
                ELSE FALSE
        eqVb == IF vb = Nil /\ observation.ValueBoolean = Nil THEN TRUE
                ELSE IF vb # Nil /\ observation.ValueBoolean # Nil
                     THEN Deref(vb) = Deref(observation.ValueBoolean)
                ELSE FALSE
    IN  eqV /\ eqVs /\ eqVb


\* tx.Rollback(ctx) undoes the statements issued on tx.  AddObservation issues
\* its SELECT and its INSERT on db.pool, none on tx, so each INSERT is committed
\* by itself when it returns and Rollback has nothing to undo.
Rollback(tbl) == tbl

\* db.pool.Exec(INSERT INTO observations ...): the row is appended and committed
ExecInsert(tbl, dev, o) == Append(tbl, Row(dev, o))

(***************************************************************************)
(* Decoders: numeric normalizer, quantity mapper, envelopes                *)
(***************************************************************************)
\* math.Pow(10, float64(d))
RECURSIVE Pow10(_)
Pow10(d) == IF d = 0 THEN 1 ELSE 10 * Pow10(d - 1)

\* values carry three decimal digits
Milli == Pow10(3)

\* math.Round: nearest integer, halves away from zero; num/den with den > 0
RoundHalfAway(num, den) ==
    IF num >= 0 THEN (2 * num + den) \div (2 * den)
    ELSE 0 - ((2 * (0 - num) + den) \div (2 * den))

\* mutant: math.Floor(*v * 10^d + 0.5) / 10^d, halves toward plus infinity
mapFloatValue_HalfUp(v, d) ==
    IF v = Nil THEN Nil
    ELSE Ptr((((2 * Deref(v) * Pow10(d) + Milli) \div (2 * Milli)) * Milli) \div Pow10(d))

\* mapFloatValue(v, d) = math.Round(*v * 10^d) / 10^d, nil for nil
mapFloatValue(v, d) ==
    IF v = Nil THEN Nil
    ELSE Ptr((RoundHalfAway(Deref(v) * Pow10(d), Milli) * Milli) \div Pow10(d))

\* mapTime(bt) = time.Unix(int64(bt), 0): bt is in epoch seconds with a
\* fraction (here milliseconds); int64() truncates toward zero
mapTime(bt) == IF bt >= 0 THEN bt \div Milli ELSE 0 - ((0 - bt) \div Milli)

mapValueString(vs) == IF vs = "" THEN Nil ELSE Ptr(vs)

lwm2mPrefix == "urn:oma:lwm2m:ext:"
AirQuality == lwm2mPrefix \o "3428"
Conductivity == lwm2mPrefix \o "3327"
DigitalInput == lwm2mPrefix \o "3200"
Distance == lwm2mPrefix \o "3330"
Energy == lwm2mPrefix \o "3331"
Humidity == lwm2mPrefix \o "3304"
Illuminance == lwm2mPrefix \o "3301"
Power == lwm2mPrefix \o "3328"
Presence == lwm2mPrefix \o "3302"
Pressure == lwm2mPrefix \o "3323"
Temperature == lwm2mPrefix \o "3303"
Watermeter == lwm2mPrefix \o "3424"

\* strings.ToLower on the base names the inputs use: every other input string
\* is lower case already
ToLower(s) ==
    CASE s = "URN:OMA:LWM2M:EXT:3303" -> "urn:oma:lwm2m:ext:3303"
      [] s = "Urn:Oma:Lwm2m:Ext:3428" -> "urn:oma:lwm2m:ext:3428"
      [] s = "Test" -> "test"
      [] s = "Building" -> "building"
      [] OTHER -> s

\* mutant: the code is compared as it is spelled (no strings.ToLower)
mapQuantityKind_CaseSensitive(m) ==
    LET lwm2mType == m.Pack[1].BaseName
        lower == lwm2mType
    IN  CASE lower = AirQuality ->
                 IF m.Pack[2].Name = "17" THEN "Concentration" ELSE "diwise:AirQuality"
          [] lower = Conductivity -> "Conductivity"
          [] lower = DigitalInput -> "diwise:DigitalInput"
          [] lower = Distance -> "Distance"
          [] lower = Energy -> "Energy"
          [] lower = Power -> "Power"
          [] lower = Presence -> "diwise:Presence"
          [] lower = Pressure -> "Pressure"
          [] lower = Temperature -> "Temperature"
          [] lower = Watermeter -> "Volume"
          [] lower = Humidity -> "RelativeHumidity"
          [] lower = Illuminance -> "Illuminance"
          [] OTHER -> lwm2mType

\* mapQuantityKind(m): called with len(m.Pack) >= 1; Pack[2] here is Go's Pack[1]
mapQuantityKind(m) ==
    LET lwm2mType == m.Pack[1].BaseName
        lower == ToLower(lwm2mType)
    IN  CASE lower = AirQuality ->
                 IF m.Pack[2].Name = "17" THEN "Concentration" ELSE "diwise:AirQuality"
          [] lower = Conductivity -> "Conductivity"
          [] lower = DigitalInput -> "diwise:DigitalInput"
          [] lower = Distance -> "Distance"
          [] lower = Energy -> "Energy"
          [] lower = Power -> "Power"
          [] lower = Presence -> "diwise:Presence"
          [] lower = Pressure -> "Pressure"
          [] lower = Temperature -> "Temperature"
          [] lower = Watermeter -> "Volume"
          [] lower = Humidity -> "RelativeHumidity"
          [] lower = Illuminance -> "Illuminance"
          [] OTHER -> lwm2mType

\* what a decoder returns: (SensorObservation, ok), or a run-time panic
Decoded(so, ok) == [so |-> so, ok |-> ok, panic |-> FALSE]
Panicked == [so |-> EmptySensorObservation, ok |-> FALSE, panic |-> TRUE]

\* mutant: the envelope is rejected only when sensor id and quantity kind are
\* both empty (&& for ||)
messageAccepted_mapToObservation_BothEmpty(m) ==
    IF Len(m.Pack) < 2 THEN Panicked
    ELSE IF m.Pack[1].StringValue = "" /\ mapQuantityKind(m) = ""
         THEN Decoded(EmptySensorObservation, FALSE)
         ELSE Decoded(SensorObservation(m.SensorID,
                  <<Observation(mapTime(m.Pack[1].BaseTime),
                                Triple(m.Pack[2].Value, mapValueString(m.Pack[2].StringValue),
                                       m.Pack[2].BoolValue),
                                mapQuantityKind(m), m.Pack[1].StringValue)>>), TRUE)

\* api.go messageAccepted.mapToObservation: the decoder handleCloudevents calls.
\* m.Pack[0] and m.Pack[1] are indexed unguarded: a pack of fewer than two
\* records is an index-out-of-range panic.  The value is passed through as is.
messageAccepted_mapToObservation(m) ==
    IF Len(m.Pack) < 2 THEN Panicked
    ELSE LET sensorId == m.Pack[1].StringValue
             observationTime == mapTime(m.Pack[1].BaseTime)
             quantityKind == mapQuantityKind(m)
             value == m.Pack[2].Value
             valueString == mapValueString(m.Pack[2].StringValue)
             valueBoolean == m.Pack[2].BoolValue
         IN  IF sensorId = "" \/ quantityKind = ""
             THEN Decoded(EmptySensorObservation, FALSE)
             ELSE Decoded(SensorObservation(m.SensorID,
                      <<Observation(observationTime, Triple(value, valueString, valueBoolean),
                                    quantityKind, sensorId)>>), TRUE)

\* mutant: every kind is rounded to 2 digits
MessageAccepted_MapToObservation_TwoDigits(m) ==
    IF Len(m.Pack) < 2 THEN Panicked
    ELSE LET sensorId == m.Pack[1].StringValue
             observationTime == mapTime(m.Pack[1].BaseTime)
             quantityKind == mapQuantityKind(m)
             value == mapFloatValue(m.Pack[2].Value, 2)
             valueString == mapValueString(m.Pack[2].StringValue)
             valueBoolean == m.Pack[2].BoolValue
         IN  IF sensorId = "" \/ quantityKind = ""
             THEN Decoded(EmptySensorObservation, FALSE)
             ELSE Decoded(SensorObservation(m.SensorID,
                      <<Observation(observationTime, Triple(value, valueString, valueBoolean),
                                    quantityKind, sensorId)>>), TRUE)

\* application MessageAccepted.MapToObservation: the same decoder with the
\* numeric normalizer applied (1 digit for Temperature, 2 otherwise)
MessageAccepted_MapToObservation(m) ==
    IF Len(m.Pack) < 2 THEN Panicked
    ELSE LET sensorId == m.Pack[1].StringValue
             observationTime == mapTime(m.Pack[1].BaseTime)
             quantityKind == mapQuantityKind(m)
             value == IF quantityKind = "Temperature"
                      THEN mapFloatValue(m.Pack[2].Value, 1)
                      ELSE mapFloatValue(m.Pack[2].Value, 2)
             valueString == mapValueString(m.Pack[2].StringValue)
             valueBoolean == m.Pack[2].BoolValue
         IN  IF sensorId = "" \/ quantityKind = ""
             THEN Decoded(EmptySensorObservation, FALSE)
             ELSE Decoded(SensorObservation(m.SensorID,
                      <<Observation(observationTime, Triple(value, valueString, valueBoolean),
                                    quantityKind, sensorId)>>), TRUE)

\* time.Duration.Seconds(): a duration, here in microseconds, as seconds with
\* a fraction (thousandths)
Seconds(d) == d \div Milli

\* float64(n) of an int
Float64(n) == n * Milli

\* mutant: the type tag is matched whatever its case
functionUpdated_mapToObservation_AnyCase(m, ts) ==
    LET DeviceID == m.Type \o ":" \o m.SubType \o ":" \o m.Id
        one(o) == Decoded(SensorObservation(DeviceID, <<o>>), TRUE)
        tag == ToLower(m.Type)
    IN  CASE tag = "building" ->
                 IF m.Building = Nil THEN Panicked
                 ELSE Decoded(SensorObservation(DeviceID,
                        <<Observation(ts, Triple(Ptr(Deref(m.Building).Energy), Nil, Nil), "Energy", m.Id),
                          Observation(ts, Triple(Ptr(Deref(m.Building).Power), Nil, Nil), "Power", m.Id)>>),
                        TRUE)
          [] tag = "counter" ->
                 IF m.Counter = Nil THEN Panicked
                 ELSE one(Observation(ts, Triple(Ptr(Float64(Deref(m.Counter).Counter)), Nil,
                                                 Ptr(Deref(m.Counter).State)), "diwise:Level", m.Id))
          [] tag = "level" ->
                 IF m.Level = Nil THEN Panicked
                 ELSE one(Observation(ts, Triple(Ptr(Deref(m.Level).Current), Nil, Nil),
                                      "diwise:Level", m.Id))
          [] tag = "presence" ->
                 IF m.Presence = Nil THEN Panicked
                 ELSE IF m.SubType = "lifebuoy"
                 THEN one(Observation(ts, Triple(Nil, Nil, Ptr(Deref(m.Presence).State)),
                                      "diwise:Lifebuoy", m.Id))
                 ELSE one(Observation(ts, Triple(Nil, Nil, Ptr(Deref(m.Presence).State)),
                                      "diwise:Presence", m.Id))
          [] tag = "timer" ->
                 IF m.Timer = Nil THEN Panicked
                 ELSE IF Deref(m.Timer).Duration = Nil \/ Deref(m.Timer).EndTime = Nil THEN Panicked
                 ELSE one(Observation(Deref(Deref(m.Timer).EndTime),
                                      Triple(Ptr(Seconds(Deref(Deref(m.Timer).Duration))), Nil,
                                             Ptr(Deref(m.Timer).State)), "diwise:Timer", m.Id))
          [] tag = "waterquality" ->
                 IF m.WaterQuality = Nil THEN Panicked
                 ELSE one(Observation(Deref(m.WaterQuality).Timestamp,
                                      Triple(Ptr(Deref(m.WaterQuality).Temperature), Nil, Nil),
                                      "Temperature", m.Id))
          [] OTHER -> Decoded(EmptySensorObservation, FALSE)

\* api.go functionUpdated.mapToObservation, with ts = time.Now().UTC().  A
\* payload variant is Nil or Ptr(record); the case of a type tag dereferences
\* its variant unguarded (nil pointer dereference: panic), and "timer" also
\* dereferences EndTime and Duration.
functionUpdated_mapToObservation(m, ts) ==
    LET DeviceID == m.Type \o ":" \o m.SubType \o ":" \o m.Id
        one(o) == Decoded(SensorObservation(DeviceID, <<o>>), TRUE)
    IN  CASE m.Type = "building" ->
                 IF m.Building = Nil THEN Panicked
                 ELSE Decoded(SensorObservation(DeviceID,
                        <<Observation(ts, Triple(Ptr(Deref(m.Building).Energy), Nil, Nil), "Energy", m.Id),
                          Observation(ts, Triple(Ptr(Deref(m.Building).Power), Nil, Nil), "Power", m.Id)>>),
                        TRUE)
          [] m.Type = "counter" ->
                 IF m.Counter = Nil THEN Panicked
                 ELSE one(Observation(ts, Triple(Ptr(Float64(Deref(m.Counter).Counter)), Nil,
                                                 Ptr(Deref(m.Counter).State)), "diwise:Level", m.Id))
          [] m.Type = "level" ->
                 IF m.Level = Nil THEN Panicked
                 ELSE one(Observation(ts, Triple(Ptr(Deref(m.Level).Current), Nil, Nil),
                                      "diwise:Level", m.Id))
          [] m.Type = "presence" ->
                 IF m.Presence = Nil THEN Panicked
                 ELSE IF m.SubType = "lifebuoy"
                 THEN one(Observation(ts, Triple(Nil, Nil, Ptr(Deref(m.Presence).State)),
                                      "diwise:Lifebuoy", m.Id))
                 ELSE one(Observation(ts, Triple(Nil, Nil, Ptr(Deref(m.Presence).State)),
                                      "diwise:Presence", m.Id))
          [] m.Type = "timer" ->
                 IF m.Timer = Nil THEN Panicked
                 ELSE IF Deref(m.Timer).Duration = Nil \/ Deref(m.Timer).EndTime = Nil THEN Panicked
                 ELSE one(Observation(Deref(Deref(m.Timer).EndTime),
                                      Triple(Ptr(Seconds(Deref(Deref(m.Timer).Duration))), Nil,
                                             Ptr(Deref(m.Timer).State)), "diwise:Timer", m.Id))
          [] m.Type = "waterquality" ->
                 IF m.WaterQuality = Nil THEN Panicked
                 ELSE one(Observation(Deref(m.WaterQuality).Timestamp,
                                      Triple(Ptr(Deref(m.WaterQuality).Temperature), Nil, Nil),
                                      "Temperature", m.Id))
          [] OTHER -> Decoded(EmptySensorObservation, FALSE)

\* the "waterquality" case of the application decoder: the temperature is
\* rounded to 1 digit
WaterQualityRounded(m) ==
    IF m.WaterQuality = Nil THEN Panicked
    ELSE Decoded(SensorObservation(m.Type \o ":" \o m.SubType \o ":" \o m.Id,
             <<Observation(Deref(m.WaterQuality).Timestamp,
                           Triple(mapFloatValue(Ptr(Deref(m.WaterQuality).Temperature), 1), Nil, Nil),
                           "Temperature", m.Id)>>), TRUE)

\* mutant: the "building" case emits the energy observation only
FunctionUpdated_MapToObservation_EnergyOnly(m, ts) ==
    CASE m.Type = "building" ->
             IF m.Building = Nil THEN Panicked
             ELSE Decoded(SensorObservation(m.Type \o ":" \o m.SubType \o ":" \o m.Id,
                      <<Observation(ts, Triple(Ptr(Deref(m.Building).Energy), Nil, Nil), "Energy", m.Id)>>),
                      TRUE)
      [] m.Type = "waterquality" -> WaterQualityRounded(m)
      [] OTHER -> functionUpdated_mapToObservation(m, ts)

\* mutant: the "presence" case ignores the sub-type
FunctionUpdated_MapToObservation_NoLifebuoy(m, ts) ==
    CASE m.Type = "presence" ->
             IF m.Presence = Nil THEN Panicked
             ELSE Decoded(SensorObservation(m.Type \o ":" \o m.SubType \o ":" \o m.Id,
                      <<Observation(ts, Triple(Nil, Nil, Ptr(Deref(m.Presence).State)),
                                    "diwise:Presence", m.Id)>>), TRUE)
      [] m.Type = "waterquality" -> WaterQualityRounded(m)
      [] OTHER -> functionUpdated_mapToObservation(m, ts)

\* mutant: the "timer" case stamps the observation with ts like the other cases
FunctionUpdated_MapToObservation_TimerNow(m, ts) ==
    CASE m.Type = "timer" ->
             IF m.Timer = Nil THEN Panicked
             ELSE IF Deref(m.Timer).Duration = Nil \/ Deref(m.Timer).EndTime = Nil THEN Panicked
             ELSE Decoded(SensorObservation(m.Type \o ":" \o m.SubType \o ":" \o m.Id,
                      <<Observation(ts, Triple(Ptr(Seconds(Deref(Deref(m.Timer).Duration))), Nil,
                                               Ptr(Deref(m.Timer).State)), "diwise:Timer", m.Id)>>), TRUE)
      [] m.Type = "waterquality" -> WaterQualityRounded(m)
      [] OTHER -> functionUpdated_mapToObservation(m, ts)

\* application FunctionUpdated.MapToObservation, with ts = time.Now().UTC():
\* the decoder of api.go with the numeric normalizer applied to the water
\* temperature
FunctionUpdated_MapToObservation(m, ts) ==
    LET DeviceID == m.Type \o ":" \o m.SubType \o ":" \o m.Id
        one(o) == Decoded(SensorObservation(DeviceID, <<o>>), TRUE)
    IN  CASE m.Type = "building" ->
                 IF m.Building = Nil THEN Panicked
                 ELSE Decoded(SensorObservation(DeviceID,
                        <<Observation(ts, Triple(Ptr(Deref(m.Building).Energy), Nil, Nil), "Energy", m.Id),
                          Observation(ts, Triple(Ptr(Deref(m.Building).Power), Nil, Nil), "Power", m.Id)>>),
                        TRUE)
          [] m.Type = "counter" ->
                 IF m.Counter = Nil THEN Panicked
                 ELSE one(Observation(ts, Triple(Ptr(Float64(Deref(m.Counter).Counter)), Nil,
                                                 Ptr(Deref(m.Counter).State)), "diwise:Level", m.Id))
          [] m.Type = "level" ->
                 IF m.Level = Nil THEN Panicked
                 ELSE one(Observation(ts, Triple(Ptr(Deref(m.Level).Current), Nil, Nil),
                                      "diwise:Level", m.Id))
          [] m.Type = "presence" ->
                 IF m.Presence = Nil THEN Panicked
                 ELSE IF m.SubType = "lifebuoy"
                 THEN one(Observation(ts, Triple(Nil, Nil, Ptr(Deref(m.Presence).State)),
                                      "diwise:Lifebuoy", m.Id))
                 ELSE one(Observation(ts, Triple(Nil, Nil, Ptr(Deref(m.Presence).State)),
                                      "diwise:Presence", m.Id))
          [] m.Type = "timer" ->
                 IF m.Timer = Nil THEN Panicked
                 ELSE IF Deref(m.Timer).Duration = Nil \/ Deref(m.Timer).EndTime = Nil THEN Panicked
                 ELSE one(Observation(Deref(Deref(m.Timer).EndTime),
                                      Triple(Ptr(Seconds(Deref(Deref(m.Timer).Duration))), Nil,
                                             Ptr(Deref(m.Timer).State)), "diwise:Timer", m.Id))
          [] m.Type = "waterquality" ->
                 IF m.WaterQuality = Nil THEN Panicked
                 ELSE one(Observation(Deref(m.WaterQuality).Timestamp,
                                      Triple(mapFloatValue(Ptr(Deref(m.WaterQuality).Temperature), 1),
                                             Nil, Nil),
                                      "Temperature", m.Id))
          [] OTHER -> Decoded(EmptySensorObservation, FALSE)

(***************************************************************************)
(* Inputs                                                                  *)
(***************************************************************************)
TA == Triple(Ptr(42000), Nil, Nil)      \* value 42
TB == Triple(Ptr(43000), Nil, Nil)      \* value 43

\* observations of the tuple (d1, s1, Energy) at every time with either value,
\* and the same reading for a tuple that differs in one component
RestObservations ==
    {Observation(t, tr, "Energy", "s1") : t \in Times, tr \in {TA, TB}}
        \cup {Observation(0, TA, "Power", "s1"), Observation(0, TA, "Energy", "s2")}

RestBodies ==
    {SensorObservation("d1", <<o>>) : o \in RestObservations}
        \cup {SensorObservation("d2", <<Observation(0, TA, "Energy", "s1")>>),
              SensorObservation("d1", <<Observation(0, TA, "Energy", "s1"),
                                        Observation(0, TA, "Power", "s1")>>),
              SensorObservation("d1", <<Observation(0, TA, "Energy", "s1"),
                                        Observation(30, TA, "Energy", "s1")>>),
              SensorObservation("d1", <<>>)}

\* a request body: JSON that unmarshals to so, or bytes json.Unmarshal rejects
RestRequests ==
    {[valid |-> TRUE, so |-> so] : so \in RestBodies}
        \cup {[valid |-> FALSE, so |-> EmptySensorObservation]}

\* the bodies of the concurrent submissions
ConcRequests ==
    {[valid |-> TRUE, so |-> SensorObservation("d1", <<Observation(t, tr, "Energy", "s1")>>)] :
        t \in {0, 30}, tr \in {TA, TB}}

\* the REST bodies posted between cloud events
EventsRestRequests ==
    {[valid |-> TRUE, so |-> SensorObservation("d1", <<Observation(0, Triple(Ptr(1230), Nil, Nil), "test", "s1"),
                                                       Observation(0, TA, "Power", "s1")>>)]}

Record(bn, bt, n, v, vs, vb) ==
    [BaseName |-> bn, BaseTime |-> bt, Name |-> n, Value |-> v, StringValue |-> vs,
     BoolValue |-> vb]

MessageAccepted(sid, pack) == [SensorID |-> sid, Pack |-> pack]

\* message.accepted envelopes: record 0 with or without a sensor id and a base
\* name, base times 0 s and 30.5 s, record 1 with 1.232 or 1.233; and packs of
\* fewer than two records
MessageAcceptedInputs ==
    {MessageAccepted("d1", <<Record(bn, bt, "", Nil, sv, Nil), Record("", 0, "", Ptr(v), "", Nil)>>) :
        bn \in {"", "test"}, bt \in {0, 30500}, sv \in {"", "s1"}, v \in {1232, 1233}}
        \cup {MessageAccepted("d1", <<>>),
              MessageAccepted("d1", <<Record("test", 0, "", Nil, "s1", Nil)>>)}

FunctionUpdated(id, type, subType, variant) ==
    [Id |-> id, Type |-> type, SubType |-> subType,
     Counter |-> IF type = "counter" THEN variant ELSE Nil,
     Level |-> IF type = "level" THEN variant ELSE Nil,
     Presence |-> IF type = "presence" THEN variant ELSE Nil,
     Timer |-> IF type = "timer" THEN variant ELSE Nil,
     WaterQuality |-> IF type = "waterquality" THEN variant ELSE Nil,
     Building |-> IF type = "building" THEN variant ELSE Nil]

FunctionUpdatedInputs ==
    {FunctionUpdated("s1", "building", "", Ptr([Energy |-> 10000, Power |-> 5000])),
     FunctionUpdated("s1", "building", "", Nil),
     FunctionUpdated("s1", "presence", "lifebuoy", Ptr([State |-> TRUE])),
     FunctionUpdated("s1", "Building", "", Nil),
     [FunctionUpdated("s1", "Building", "", Nil) EXCEPT
         !.Building = Ptr([Energy |-> 10000, Power |-> 5000])]}

\* base names given to the decoders called directly: the twelve codes of the
\* table, codes in other case, unknown codes and no code
DecoderACodes ==
    {AirQuality, Conductivity, DigitalInput, Distance, Energy, Humidity, Illuminance, Power,
     Presence, Pressure, Temperature, Watermeter,
     "URN:OMA:LWM2M:EXT:3303", "Urn:Oma:Lwm2m:Ext:3428", "Test", "test", ""}

\* message.accepted envelopes given to the decoder called directly: every code,
\* record 1 named "17" or not, with 12.346, 1.232 or no number
DecoderAInputs ==
    {MessageAccepted("d1", <<Record(bn, 0, "", Nil, "s1", Nil), Record("", 0, n, v, "", Nil)>>) :
        bn \in DecoderACodes, n \in {"", "17"}, v \in {Nil, Ptr(12346), Ptr(1232)}}
        \cup MessageAcceptedInputs

\* a function.updated envelope with every payload variant absent
FunctionUpdatedBare(id, type, subType) == FunctionUpdated(id, type, subType, Nil)

\* function.updated envelopes given to the decoder called directly: every
\* recognised type tag with its variant and without it, timers without end-time
\* or duration, and unknown tags with and without variants
DecoderBInputs ==
    {FunctionUpdated("s1", "building", "", Ptr([Energy |-> 10000, Power |-> 5000])),
     FunctionUpdated("s1", "level", "", Ptr([Current |-> 1500, Percent |-> Nil, Offset |-> Nil])),
     FunctionUpdated("s1", "waterquality", "beach", Ptr([Temperature |-> 12346, Timestamp |-> 45])),
     FunctionUpdated("s1", "waterquality", "beach", Ptr([Temperature |-> 12346, Timestamp |-> 0]))}
        \cup {FunctionUpdated("s1", "counter", "", Ptr([Counter |-> 3, State |-> b])) : b \in BOOLEAN}
        \cup {FunctionUpdated("s1", "presence", st, Ptr([State |-> b])) :
                 st \in {"lifebuoy", "Lifebuoy", ""}, b \in BOOLEAN}
        \cup {FunctionUpdated("s1", "timer", "", Ptr([StartTime |-> 0, EndTime |-> e, Duration |-> d,
                                                      State |-> FALSE])) :
                 e \in {Nil, Ptr(30)}, d \in {Nil, Ptr(2500000)}}
        \cup {FunctionUpdatedBare("s1", t, "") :
                 t \in {"building", "counter", "level", "presence", "timer", "waterquality",
                        "Building", "stopwatch", ""}}
        \cup {[FunctionUpdatedBare("s1", "Building", "") EXCEPT
                  !.Building = Ptr([Energy |-> 10000, Power |-> 5000])],
              [FunctionUpdatedBare("s1", "stopwatch", "") EXCEPT
                  !.Timer = Ptr([StartTime |-> 0, EndTime |-> Ptr(30), Duration |-> Ptr(2500000),
                                 State |-> TRUE]),
                  !.Presence = Ptr([State |-> TRUE])]}

MessageAcceptedName == "message.accepted"
FunctionUpdatedName == "function.updated"

\* a request to /api/cloudevents: parsed says whether it is a CloudEvent at all,
\* valid whether its data unmarshals into the type's struct
CloudEvent(parsed, type, valid, m) == [parsed |-> parsed, Type |-> type, valid |-> valid, m |-> m]

NoMessage == [Pack |-> <<>>]

CloudEvents ==
    {CloudEvent(TRUE, MessageAcceptedName, TRUE, m) : m \in MessageAcceptedInputs}
        \cup {CloudEvent(TRUE, FunctionUpdatedName, TRUE, m) : m \in FunctionUpdatedInputs}
        \cup {CloudEvent(FALSE, "", FALSE, NoMessage),
              CloudEvent(TRUE, MessageAcceptedName, FALSE, NoMessage),
              CloudEvent(TRUE, FunctionUpdatedName, FALSE, NoMessage),
              CloudEvent(TRUE, "device.statusUpdated", TRUE, NoMessage)}

(***************************************************************************)
(* State machine                                                           *)
(***************************************************************************)
StatusNone == "none"
StatusCreated == "201 Created"
StatusBadRequest == "400 Bad Request"
StatusInternalServerError == "500 Internal Server Error"
\* the handler panicked: net/http recovers, logs and closes the connection
StatusPanic == "panic"

NoRequest == [handler |-> "none", event |-> CloudEvent(FALSE, "", FALSE, NoMessage),
              so |-> EmptySensorObservation]

InAddObservation == {"begin", "lookup", "insert", "commit"}

\* the result of row.Scan(&v, &vs, &vb)
NotLooked == "-"
NoRows == "no rows"
RowDiffers == "row differs"
RowEqual == "row equal"
ScanError == "error"

\* one observation of the batch, once the loop is through with it
Outcome(result, scanned) == [result |-> result, found |-> scanned]

\* no decoder was called directly; no listing was answered; no recursive
\* query is running; no value was rounded
NotDecoded == Decoded(EmptySensorObservation, FALSE)
NoListing == [op |-> "none"]
NoTraverse == [work |-> {}, rows |-> {}, evaluations |-> 0]
NotRounded == [v |-> Nil, d |-> 0, f |-> Nil]

Init ==
    /\ rows = <<>>
    /\ pc = [p \in Procs |-> "idle"]
    /\ req = [p \in Procs |-> NoRequest]
    /\ idx = [p \in Procs |-> 0]
    /\ found = [p \in Procs |-> NotLooked]
    /\ outcomes = [p \in Procs |-> <<>>]
    /\ err = [p \in Procs |-> NoError]
    /\ status = [p \in Procs |-> StatusNone]
    /\ before = [p \in Procs |-> <<>>]
    /\ cancelled = [p \in Procs |-> FALSE]
    /\ clock = 0
    /\ decoded = [p \in Procs |-> NotDecoded]
    /\ entity = <<>>
    /\ relation = {}
    /\ listing = [p \in Procs |-> NoListing]
    /\ traverse = [p \in Procs |-> NoTraverse]
    /\ rounded = [p \in Procs |-> NotRounded]

\* observations requests in flight may still insert
RECURSIVE Pending(_)
Pending(ps) ==
    IF ps = {} THEN 0
    ELSE LET q == CHOOSE x \in ps : TRUE
         IN  (IF pc[q] \in InAddObservation
              THEN Len(req[q].so.Observations) - Len(outcomes[q]) ELSE 0)
             + Pending(ps \ {q})

\* the table stays within MaxRows
Room(n) == Len(rows) + Pending(Procs) + n <= MaxRows

\* the handler writes its status and returns without calling the store
Answer(p, r, st) ==
    /\ req' = [req EXCEPT ![p] = r]
    /\ pc' = [pc EXCEPT ![p] = "done"]
    /\ status' = [status EXCEPT ![p] = st]
    /\ before' = [before EXCEPT ![p] = rows]
    /\ UNCHANGED <<rows, idx, found, outcomes, err, cancelled, clock, decoded, entity, relation, listing, traverse, rounded>>

\* the handler goes on to db.AddObservation(ctx, so)
CallAddObservation(p, r) ==
    /\ req' = [req EXCEPT ![p] = r]
    /\ pc' = [pc EXCEPT ![p] = "begin"]
    /\ before' = [before EXCEPT ![p] = rows]
    /\ UNCHANGED <<rows, idx, found, outcomes, err, status, cancelled, clock, decoded, entity, relation, listing, traverse, rounded>>

\* POST /api/observations up to the call of AddObservation
createObservation(p, body) ==
    /\ pc[p] = "idle"
    /\ Room(Len(body.so.Observations))
    /\ LET r == [handler |-> "createObservation", event |-> NoRequest.event, so |-> body.so]
       IN  IF ~body.valid
           THEN Answer(p, r, StatusBadRequest)
           ELSE CallAddObservation(p, r)

\* POST /api/cloudevents up to the call of AddObservation
handleCloudevents(p, ev) ==
    /\ pc[p] = "idle"
    /\ LET d == IF ~ev.parsed \/ ~ev.valid THEN Decoded(EmptySensorObservation, FALSE)
                ELSE IF ev.Type = MessageAcceptedName THEN messageAccepted_mapToObservation(ev.m)
                ELSE IF ev.Type = FunctionUpdatedName THEN functionUpdated_mapToObservation(ev.m, clock)
                ELSE Decoded(EmptySensorObservation, FALSE)
           r == [handler |-> "handleCloudevents", event |-> ev, so |-> d.so]
       IN  /\ Room(Len(d.so.Observations))
           /\ IF d.panic THEN Answer(p, r, StatusPanic)
              ELSE IF d.ok THEN CallAddObservation(p, r)
              ELSE Answer(p, r, StatusBadRequest)

\* AddObservation returns e to the handler, which answers 500 or 201
Return(p, e, tbl, outs) ==
    /\ rows' = tbl
    /\ outcomes' = [outcomes EXCEPT ![p] = outs]
    /\ err' = [err EXCEPT ![p] = e]
    /\ status' = [status EXCEPT ![p] =
                     IF e # NoError THEN StatusInternalServerError ELSE StatusCreated]
    /\ pc' = [pc EXCEPT ![p] = "done"]
    /\ UNCHANGED <<req, idx, found, before, cancelled, clock, decoded, entity, relation, listing, traverse, rounded>>

\* db.pool.BeginTx succeeds; the loop starts at the first observation
BeginTx(p) ==
    /\ pc[p] = "begin"
    /\ ~cancelled[p]
    /\ idx' = [idx EXCEPT ![p] = 1]
    /\ pc' = [pc EXCEPT ![p] = IF Len(req[p].so.Observations) = 0 THEN "commit" ELSE "lookup"]
    /\ UNCHANGED <<rows, req, found, outcomes, err, status, before, cancelled, clock, decoded, entity, relation, listing, traverse, rounded>>

\* db.pool.BeginTx fails (no connection, or the context is cancelled)
BeginTxErr(p) ==
    /\ pc[p] = "begin"
    /\ Return(p, "begin", rows, outcomes[p])

\* the loop goes to the next observation, or leaves for tx.Commit
Continue(p, tbl, out) ==
    /\ rows' = tbl
    /\ outcomes' = [outcomes EXCEPT ![p] = Append(@, out)]
    /\ found' = [found EXCEPT ![p] = NotLooked]
    /\ idx' = [idx EXCEPT ![p] = @ + 1]
    /\ pc' = [pc EXCEPT ![p] = IF idx[p] = Len(req[p].so.Observations) THEN "commit" ELSE "lookup"]
    /\ UNCHANGED <<req, err, status, before, cancelled, clock, decoded, entity, relation, listing, traverse, rounded>>

\* the SELECT of the loop body and the comparison of its row
Lookup(p) ==
    /\ pc[p] = "lookup"
    /\ ~cancelled[p]
    /\ LET so == req[p].so
           o == so.Observations[idx[p]]
           last == SelectLast(rows, so.DeviceID, o.SensorId, o.QuantityKind,
                              o.ObservationTime - Window)
       IN  \/ /\ last = {}                                   \* pgx.ErrNoRows
              /\ pc' = [pc EXCEPT ![p] = "insert"]
              /\ found' = [found EXCEPT ![p] = NoRows]
              /\ UNCHANGED <<rows, req, idx, outcomes, err, status, before, cancelled, clock, decoded, entity, relation, listing, traverse, rounded>>
           \/ \E i \in last :
                IF isValueEqual(o, rows[i].value, rows[i].value_string, rows[i].value_boolean)
                THEN Continue(p, rows, Outcome("discarded", RowEqual))
                ELSE /\ pc' = [pc EXCEPT ![p] = "insert"]
                     /\ found' = [found EXCEPT ![p] = RowDiffers]
                     /\ UNCHANGED <<rows, req, idx, outcomes, err, status, before, cancelled, clock, decoded, entity, relation, listing, traverse, rounded>>

\* mutant: a failed SELECT is treated like a duplicate and the loop continues
LookupErr_Swallowed(p) ==
    /\ pc[p] = "lookup"
    /\ Continue(p, rows, Outcome("lookup failed", ScanError))

\* the SELECT fails with an error other than pgx.ErrNoRows
LookupErr(p) ==
    /\ pc[p] = "lookup"
    /\ Return(p, "lookup", Rollback(rows), Append(outcomes[p], Outcome("lookup failed", ScanError)))

\* the INSERT of the loop body
Insert(p) ==
    /\ pc[p] = "insert"
    /\ ~cancelled[p]
    /\ Continue(p, ExecInsert(rows, req[p].so.DeviceID, req[p].so.Observations[idx[p]]),
                Outcome("stored", found[p]))

\* the INSERT fails
InsertErr(p) ==
    /\ pc[p] = "insert"
    /\ Return(p, "insert", Rollback(rows), Append(outcomes[p], Outcome("insert failed", found[p])))

\* tx.Commit succeeds
Commit(p) ==
    /\ pc[p] = "commit"
    /\ ~cancelled[p]
    /\ Return(p, NoError, rows, outcomes[p])

\* tx.Commit fails (connection lost, or the context is cancelled)
CommitErr(p) ==
    /\ pc[p] = "commit"
    /\ Return(p, "commit", rows, outcomes[p])

\* the client goes away or the request times out: r.Context() is cancelled, and
\* every later statement of this request fails
Cancel(p) ==
    /\ pc[p] \in InAddObservation
    /\ ~cancelled[p]
    /\ cancelled' = [cancelled EXCEPT ![p] = TRUE]
    /\ UNCHANGED <<rows, pc, req, idx, found, outcomes, err, status, before, clock, decoded, entity, relation, listing, traverse, rounded>>

\* the response is out; the goroutine ends
Respond(p) ==
    /\ pc[p] = "done"
    /\ pc' = [pc EXCEPT ![p] = "idle"]
    /\ req' = [req EXCEPT ![p] = NoRequest]
    /\ idx' = [idx EXCEPT ![p] = 0]
    /\ found' = [found EXCEPT ![p] = NotLooked]
    /\ outcomes' = [outcomes EXCEPT ![p] = <<>>]
    /\ err' = [err EXCEPT ![p] = NoError]
    /\ status' = [status EXCEPT ![p] = StatusNone]
    /\ before' = [before EXCEPT ![p] = <<>>]
    /\ cancelled' = [cancelled EXCEPT ![p] = FALSE]
    /\ decoded' = [decoded EXCEPT ![p] = NotDecoded]
    /\ listing' = [listing EXCEPT ![p] = NoListing]
    /\ traverse' = [traverse EXCEPT ![p] = NoTraverse]
    /\ rounded' = [rounded EXCEPT ![p] = NotRounded]
    /\ UNCHANGED <<rows, clock, entity, relation>>

\* time passes
Tick ==
    /\ \E t \in Times : t > clock /\ clock' = t
    /\ UNCHANGED <<rows, pc, req, idx, found, outcomes, err, status, before, cancelled, decoded, entity, relation, listing, traverse, rounded>>

\* a step of AddObservation, and the end of the request
StoreStep(p) ==
    \/ BeginTx(p) \/ BeginTxErr(p)
    \/ Lookup(p) \/ LookupErr(p)
    \/ Insert(p) \/ InsertErr(p)
    \/ Commit(p) \/ CommitErr(p)
    \/ Cancel(p)
    \/ Respond(p)

\* Spec: REST submissions served one at a time
Next ==
    \/ \E body \in RestRequests : createObservation(1, body)
    \/ StoreStep(1)

Spec == Init /\ [][Next]_vars

\* SpecConc: two REST submissions in flight at once, their statements interleaved
NextConc ==
    \E p \in Procs :
        \/ \E body \in ConcRequests : createObservation(p, body)
        \/ StoreStep(p)

SpecConc == Init /\ [][NextConc]_vars

\* a caller (the package's tests) applies the application decoder of
\* message.accepted to envelope m
DecodeMessageAccepted(p, m) ==
    /\ pc[p] = "idle"
    /\ LET d == MessageAccepted_MapToObservation(m)
       IN  /\ decoded' = [decoded EXCEPT ![p] = d]
           /\ req' = [req EXCEPT ![p] = [handler |-> "MessageAccepted.MapToObservation",
                                         event |-> CloudEvent(TRUE, MessageAcceptedName, TRUE, m),
                                         so |-> d.so]]
    /\ pc' = [pc EXCEPT ![p] = "done"]
    /\ before' = [before EXCEPT ![p] = rows]
    /\ UNCHANGED <<rows, idx, found, outcomes, err, status, cancelled, clock, entity, relation, listing, traverse, rounded>>

\* a caller applies the application decoder of function.updated to envelope m
DecodeFunctionUpdated(p, m) ==
    /\ pc[p] = "idle"
    /\ LET d == FunctionUpdated_MapToObservation(m, clock)
       IN  /\ decoded' = [decoded EXCEPT ![p] = d]
           /\ req' = [req EXCEPT ![p] = [handler |-> "FunctionUpdated.MapToObservation",
                                         event |-> CloudEvent(TRUE, FunctionUpdatedName, TRUE, m),
                                         so |-> d.so]]
    /\ pc' = [pc EXCEPT ![p] = "done"]
    /\ before' = [before EXCEPT ![p] = rows]
    /\ UNCHANGED <<rows, idx, found, outcomes, err, status, cancelled, clock, entity, relation, listing, traverse, rounded>>

\* SpecDecode: the application decoders applied to envelopes while the clock runs
NextDecode ==
    \/ \E m \in DecoderAInputs : DecodeMessageAccepted(1, m)
    \/ \E m \in DecoderBInputs : DecodeFunctionUpdated(1, m)
    \/ Respond(1)
    \/ Tick

SpecDecode == Init /\ [][NextDecode]_vars

\* SpecEvents: cloud events and REST submissions served one at a time while
\* the clock runs
NextEvents ==
    \/ \E ev \in CloudEvents : handleCloudevents(1, ev)
    \/ \E body \in EventsRestRequests : createObservation(1, body)
    \/ StoreStep(1)
    \/ Tick

SpecEvents == Init /\ [][NextEvents]_vars

(***************************************************************************)
(* Entities and listings                                                   *)
(***************************************************************************)
MaxPage == 2                     \* highest page number requested
MaxSize == 2                     \* largest page size requested

BuildingContext == "https://dev.realestatecore.io/contexts/Building.jsonld"
BuildingType == "dtmi:org:w3id:rec:Building;1"
SensorContext == "https://dev.realestatecore.io/contexts/Sensor.jsonld"
SensorType == "dtmi:org:brickschema:schema:Brick:Sensor;1"

Property(id, type) == [Id |-> id, Type |-> type]
Entity(context, id, type, isPartOf) ==
    [Context |-> context, Id |-> id, Type |-> type, IsPartOf |-> isPartOf]

\* the zero value database.Entity{}
EmptyEntity == Entity("", "", "", Nil)

\* the row INSERT INTO entity writes; node_id is the row's position in the table
EntityRow(e) == [entity_id |-> e.Id, entity_type |-> e.Type, entity_context |-> e.Context]

\* the entity ids of the inputs, in ascending text order (ORDER BY entity_id ASC)
EntityIds == <<"b1", "b2", "se1", "se2", "sp1">>
Rank(id) == CHOOSE i \in DOMAIN EntityIds : EntityIds[i] = id

\* SELECT node_id FROM entity WHERE entity_id = $1 AND entity_type = $2: the
\* node ids found (none: pgx.ErrNoRows; the unique index allows at most one)
getNodeID(tbl, entityID, entityType) ==
    {n \in DOMAIN tbl : tbl[n].entity_id = entityID /\ tbl[n].entity_type = entityType}

\* AddEntity(e) on the tables (ent, rel): what it leaves in the tables and the
\* error it returns.  Each statement is committed on its own.
AddEntityIn(ent, rel, e) ==
    LET tbl == IF getNodeID(ent, e.Id, e.Type) # {} THEN ent            \* ON CONFLICT DO NOTHING
               ELSE Append(ent, EntityRow(e))
    IN  IF e.IsPartOf = Nil THEN [entity |-> tbl, relation |-> rel, err |-> NoError]
        ELSE LET nodeId == getNodeID(tbl, e.Id, e.Type)
                 partOfNodeId == getNodeID(tbl, Deref(e.IsPartOf).Id, Deref(e.IsPartOf).Type)
             IN  IF partOfNodeId = {}
                 THEN [entity |-> tbl, relation |-> rel, err |-> "no rows"]
                 ELSE [entity |-> tbl,
                       relation |-> rel \cup {<<CHOOSE n \in partOfNodeId : TRUE,
                                                CHOOSE n \in nodeId : TRUE>>},
                       err |-> NoError]

\* AddEntity(e) on the stored tables
AddEntity(e) == AddEntityIn(entity, relation, e)

\* getParentEntity(nodeId) as GetEntity and GetEntities use it: the IsPartOf
\* values the entity may get (the first row of SELECT parent FROM relation
\* WHERE child = $1, whichever it is; nil when the query returns no row)
getParentEntity(tbl, rel, nodeId) ==
    LET parents == {r[1] : r \in {x \in rel : x[2] = nodeId}}
    IN  IF parents = {} THEN {Nil}
        ELSE {Ptr(Property(tbl[q].entity_id, tbl[q].entity_type)) : q \in parents}

\* GetEntity(entityID, entityType): the entities it may return; none: an error
GetEntity(tbl, rel, entityID, entityType) ==
    {Entity(tbl[n].entity_context, tbl[n].entity_id, tbl[n].entity_type, ip) :
        n \in getNodeID(tbl, entityID, entityType), ip \in UNION {getParentEntity(tbl, rel, k) : k \in getNodeID(tbl, entityID, entityType)}}

\* OFFSET offset LIMIT limit applied to an ordered result
OffsetLimit(result, offset, limit) ==
    IF offset >= Len(result) \/ limit = 0 THEN <<>>
    ELSE SubSeq(result, offset + 1, IF offset + limit < Len(result) THEN offset + limit ELSE Len(result))

\* the node ids in S ordered by entity_id ASC
RECURSIVE OrderByEntityId(_, _)
OrderByEntityId(tbl, S) ==
    IF S = {} THEN <<>>
    ELSE LET n == CHOOSE x \in S : \A y \in S : Rank(tbl[x].entity_id) <= Rank(tbl[y].entity_id)
         IN  <<n>> \o OrderByEntityId(tbl, S \ {n})

\* a result of a listing query: (fullCount, items, err)
Listed(fullCount, items, e) == [fullCount |-> fullCount, items |-> items, err |-> e]

\* GetEntities(entityType, page, size): the results it may return.  The page is
\* passed as OFFSET as it is; full_count is read from the rows returned, and
\* stays 0 when there is none.  A negative OFFSET or LIMIT is an error of the query.
GetEntities(entityType, page, size) ==
    IF page < 0 \/ size < 0 THEN {Listed(0, <<>>, "query")}
    ELSE LET matching == {n \in DOMAIN entity : entity[n].entity_type = entityType}
             returned == OffsetLimit(OrderByEntityId(entity, matching), page, size)
             fullCount == IF returned = <<>> THEN 0 ELSE Cardinality(matching)
         IN  {Listed(fullCount, es, NoError) :
                 es \in {x \in [DOMAIN returned -> {Entity(entity[n].entity_context, entity[n].entity_id,
                                                           entityType, ip) :
                                                       n \in matching,
                                                       ip \in UNION {getParentEntity(entity, relation, k) : k \in matching}}] :
                            \A i \in DOMAIN returned :
                                /\ x[i].Id = entity[returned[i]].entity_id
                                /\ x[i].IsPartOf \in getParentEntity(entity, relation, returned[i])}}

\* the zero time.Time the handler starts from when time.Parse fails: before
\* every time of the model
ZeroTime == -1

\* GetObservations(sensorId, starting, ending, page, size): the results it may
\* return.  OFFSET is page * size; rows of equal observation_time come in any
\* order; full_count is read from the rows returned, and stays 0 when there is none.
GetObservations(sensorId, starting, ending, page, size) ==
    LET limit == size
        offset == page * size
    IN  IF offset < 0 \/ limit < 0 THEN {Listed(0, <<>>, "query")}
        ELSE LET matching == {i \in DOMAIN rows :
                                 /\ rows[i].sensor_id = sensorId
                                 /\ starting <= rows[i].observation_time
                                 /\ rows[i].observation_time <= ending}
                 n == Cardinality(matching)
                 orders == {o \in [1..n -> matching] :
                               /\ \A i, j \in 1..n : i # j => o[i] # o[j]
                               /\ \A i, j \in 1..n :
                                    i < j => rows[o[i]].observation_time <= rows[o[j]].observation_time}
             IN  {LET returned == OffsetLimit(o, offset, limit)
                  IN  Listed(IF returned = <<>> THEN 0 ELSE n,
                             [i \in DOMAIN returned |->
                                 Observation(rows[returned[i]].observation_time,
                                             Triple(rows[returned[i]].value, rows[returned[i]].value_string,
                                                    rows[returned[i]].value_boolean),
                                             rows[returned[i]].quantity_kind, sensorId)],
                             NoError) : o \in orders}

\* getPageUrl(p) of newHydraCollectionResult: the page a link of the view
\* names, or "" (Nil)
getPageUrl(p, lastPageN) == IF p < 0 \/ p > lastPageN THEN Nil ELSE Ptr(p)

\* newHydraCollectionResult(url, qry, member, page, size, totalItems): qry is
\* nil (FALSE) or not; when it is not, size # 0 (totalItems / size).  The view
\* is Nil when qry is nil.
newHydraCollectionResult(qry, member, page, size, totalItems) ==
    IF ~qry THEN [TotalItems |-> totalItems, Member |-> member, View |-> Nil]
    ELSE LET lastPageN == totalItems \div size
         IN  [TotalItems |-> totalItems, Member |-> member,
              View |-> Ptr([First |-> getPageUrl(0, lastPageN),
                            Previous |-> getPageUrl(page - 1, lastPageN),
                            Next |-> getPageUrl(page + 1, lastPageN),
                            Last |-> getPageUrl(lastPageN, lastPageN)])]

StatusOK == "200 OK"

\* a listing request and its response
Listing(op, what, starting, ending, page, size, response) ==
    [op |-> op, what |-> what, starting |-> starting, ending |-> ending, page |-> page,
     size |-> size, response |-> response]

\* the handler of a listing ends with status st and response body (Nil: none)
AnswerListing(p, l, st) ==
    /\ pc[p] = "idle"
    /\ pc' = [pc EXCEPT ![p] = "done"]
    /\ req' = [req EXCEPT ![p] = [handler |-> l.op, event |-> NoRequest.event,
                                  so |-> EmptySensorObservation]]
    /\ status' = [status EXCEPT ![p] = st]
    /\ listing' = [listing EXCEPT ![p] = l]
    /\ before' = [before EXCEPT ![p] = rows]
    /\ UNCHANGED <<rows, idx, found, outcomes, err, cancelled, clock, decoded, entity, relation, traverse, rounded>>

\* the end of a listing handler, given what the store returned
WriteListing(p, op, what, starting, ending, page, size, r) ==
    IF r.err # NoError
    THEN AnswerListing(p, Listing(op, what, starting, ending, page, size, Nil), StatusInternalServerError)
    ELSE IF size = 0                                       \* integer divide by zero
    THEN AnswerListing(p, Listing(op, what, starting, ending, page, size, Nil), StatusPanic)
    ELSE AnswerListing(p, Listing(op, what, starting, ending, page, size,
                                  Ptr(newHydraCollectionResult(TRUE, r.items, page, size, r.fullCount))),
                       StatusOK)

\* GET /api/sensors, /api/buildings without root[id] and root[type]
getEntities(p, entityType, page, size) ==
    /\ pc[p] = "idle"
    /\ \E r \in GetEntities(entityType, page, size) :
          WriteListing(p, "getEntities", entityType, ZeroTime, ZeroTime, page, size, r)

\* GET /api/observations?sensor_id=..., with hasObservationTime[starting] and
\* [ending] given (Ptr) or not (Nil)
getObservations(p, sensorId, starting, ending, page, size) ==
    /\ pc[p] = "idle"
    /\ LET startingTime == IF starting = Nil THEN ZeroTime ELSE Deref(starting)
           endingTime == IF ending = Nil THEN clock ELSE Deref(ending)
       IN  IF sensorId = ""
           THEN AnswerListing(p, Listing("getObservations", sensorId, startingTime, endingTime,
                                         page, size, Nil), StatusBadRequest)
           ELSE \E r \in GetObservations(sensorId, startingTime, endingTime, page, size) :
                   WriteListing(p, "getObservations", sensorId, startingTime, endingTime, page, size, r)

\* POST /api/sensors, /api/buildings
createEntity(p, body) ==
    /\ pc[p] = "idle"
    /\ pc' = [pc EXCEPT ![p] = "done"]
    /\ req' = [req EXCEPT ![p] = [handler |-> "createEntity", event |-> NoRequest.event,
                                  so |-> EmptySensorObservation]]
    /\ before' = [before EXCEPT ![p] = rows]
    /\ IF ~body.valid
       THEN /\ status' = [status EXCEPT ![p] = StatusBadRequest]
            /\ listing' = [listing EXCEPT ![p] = [op |-> "createEntity", e |-> body.e, response |-> Nil]]
            /\ UNCHANGED <<entity, relation>>
       ELSE LET a == AddEntity(body.e)
            IN  /\ entity' = a.entity
                /\ relation' = a.relation
                /\ IF a.err # NoError
                   THEN /\ status' = [status EXCEPT ![p] = StatusBadRequest]
                        /\ listing' = [listing EXCEPT ![p] =
                                          [op |-> "createEntity", e |-> body.e, response |-> Nil]]
                   ELSE /\ status' = [status EXCEPT ![p] = StatusCreated]
                        /\ \E e \in GetEntity(a.entity, a.relation, body.e.Id, body.e.Type) :
                             listing' = [listing EXCEPT ![p] =
                                            [op |-> "createEntity", e |-> body.e, response |-> Ptr(e)]]
    /\ UNCHANGED <<rows, idx, found, outcomes, err, cancelled, clock, decoded, traverse, rounded>>

\* the entities posted: a building, a sensor of that building and a sensor of
\* no building; and a body json.Unmarshal rejects
EntityRequests ==
    {[valid |-> TRUE, e |-> e] :
        e \in {Entity(BuildingContext, "b1", BuildingType, Nil),
               Entity(SensorContext, "se1", SensorType, Ptr(Property("b1", BuildingType))),
               Entity(SensorContext, "se2", SensorType, Nil)}}
        \cup {[valid |-> FALSE, e |-> EmptyEntity]}

\* the observations posted before listings: three of sensor s1, two of them at
\* the same time
ListRestRequests ==
    {[valid |-> TRUE, so |-> SensorObservation("d1", <<o>>)] :
        o \in {Observation(0, TA, "Energy", "s1"), Observation(0, TA, "Power", "s1"),
               Observation(30, TB, "Energy", "s1")}}

Pages == -1..MaxPage
Sizes == 0..MaxSize

\* SpecList: entities and observations posted, and listings requested, one
\* request at a time
NextList ==
    \/ \E body \in EntityRequests : createEntity(1, body)
    \/ \E body \in ListRestRequests : createObservation(1, body)
    \/ StoreStep(1)
    \/ \E t \in {BuildingType, SensorType}, page \in Pages, size \in Sizes :
          getEntities(1, t, page, size)
    \/ \E sid \in {"s1", ""}, starting \in {Nil, Ptr(30)}, ending \in {Nil, Ptr(30)},
          page \in Pages, size \in Sizes :
          getObservations(1, sid, starting, ending, page, size)

\* triples for the comparison of values: every field absent or present, and
\* for every field a triple that differs from another in that field only
ValueTriples ==
    {Triple(v, vs, vb) : v \in {Nil, Ptr(42000)}, vs \in {Nil, Ptr("on")}, vb \in {Nil, Ptr(TRUE)}}
        \cup {Triple(Ptr(43000), Nil, Nil), Triple(Nil, Ptr("off"), Nil), Triple(Nil, Nil, Ptr(FALSE))}

\* one observation of the tuple (d1, s1, Energy) at time 0 with any of them
ValueRequests ==
    {[valid |-> TRUE, so |-> SensorObservation("d1", <<Observation(0, tr, "Energy", "s1")>>)] :
        tr \in ValueTriples}

MaxCompared == 2                 \* rows stored before the last comparison

\* SpecValues: observations of one tuple and one time with any triple, one
\* request at a time
NextValues ==
    \/ /\ Len(rows) < MaxCompared
       /\ \E body \in ValueRequests : createObservation(1, body)
    \/ StoreStep(1)

SpecValues == Init /\ [][NextValues]_vars

MaxMilli == 1600                 \* values from -1.6 to 1.6 in steps of 0.001
MaxDigits == 3                   \* digit counts from 0

\* the values rounded: absent, every value of the range, and the thousandths
\* on either side of 12.345678 and of -12.345678
FloatValues ==
    {Nil} \cup {Ptr(n) : n \in (0 - MaxMilli)..MaxMilli}
          \cup {Ptr(12345), Ptr(12346), Ptr(0 - 12345), Ptr(0 - 12346)}

Digits == 0..MaxDigits

\* a call of mapFloatValue(v, d)
Normalize(p, v, d) ==
    /\ pc[p] = "idle"
    /\ pc' = [pc EXCEPT ![p] = "done"]
    /\ req' = [req EXCEPT ![p] = [handler |-> "mapFloatValue", event |-> NoRequest.event,
                                  so |-> EmptySensorObservation]]
    /\ rounded' = [rounded EXCEPT ![p] = [v |-> v, d |-> d, f |-> mapFloatValue(v, d)]]
    /\ UNCHANGED <<rows, idx, found, outcomes, err, status, before, cancelled, clock, decoded,
                   entity, relation, listing, traverse>>

\* SpecRound: the numeric normalizer called on any value with any digit count
NextRound ==
    \/ \E v \in FloatValues, d \in Digits : Normalize(1, v, d)
    \/ Respond(1)

SpecRound == Init /\ [][NextRound]_vars

SpecList == Init /\ [][NextList]_vars

(***************************************************************************)
(* Entity trees                                                            *)
(***************************************************************************)
SpaceContext == "https://dev.realestatecore.io/contexts/Space.jsonld"
SpaceType == "dtmi:org:w3id:rec:Space;1"
SpaceTypeName == "space"
BuildingTypeName == "building"
SensorTypeName == "sensor"
ObservationEventType == "dtmi:org:w3id:rec:ObservationEvent;1"
ObservationEventTypeName == "observationevent"

GetTypeFromTypeName(typeName) ==
    LET lower == ToLower(typeName)
    IN  CASE lower = SpaceTypeName -> SpaceType
          [] lower = BuildingTypeName -> BuildingType
          [] lower = SensorTypeName -> SensorType
          [] lower = ObservationEventTypeName -> ObservationEventType
          [] OTHER -> ""

\* a record of the csv file Seed reads
rec(space, building, sensor) == [Space |-> space, Building |-> building, Sensor |-> sensor]

\* the result of a call on the tables that did nothing
NothingAdded(ent, rel) == [entity |-> ent, relation |-> rel, err |-> NoError]

\* the loop of Seed over recs, from the tables (ent, rel): what it leaves in
\* the tables and the error it returns
RECURSIVE SeedFrom(_, _, _, _, _)
SeedFrom(ent, rel, recs, lastSpaceId, lastBuildingId) ==
    IF recs = <<>> THEN NothingAdded(ent, rel)
    ELSE LET r == Head(recs)
             space == IF lastSpaceId # r.Space
                      THEN AddEntityIn(ent, rel, Entity(SpaceContext, r.Space, SpaceType, Nil))
                      ELSE NothingAdded(ent, rel)
             building == IF lastBuildingId # r.Building
                         THEN AddEntityIn(space.entity, space.relation,
                                          Entity(BuildingContext, r.Building, BuildingType,
                                                 Ptr(Property(r.Space, SpaceType))))
                         ELSE NothingAdded(space.entity, space.relation)
             sensor == AddEntityIn(building.entity, building.relation,
                                   Entity(SensorContext, r.Sensor, SensorType,
                                          Ptr(Property(r.Building, BuildingType))))
         IN  IF space.err # NoError THEN space
             ELSE IF building.err # NoError THEN building
             ELSE IF sensor.err # NoError THEN sensor
             ELSE SeedFrom(sensor.entity, sensor.relation, Tail(recs), r.Space, r.Building)

\* Seed(reader), reader holding the records recs after its header line
Seed(recs) ==
    LET a == SeedFrom(entity, relation, recs, "", "")
    IN  /\ \A p \in Procs : pc[p] = "idle"
        /\ entity' = a.entity
        /\ relation' = a.relation
        /\ UNCHANGED <<rows, pc, req, idx, found, outcomes, err, status, before, cancelled, clock,
                       decoded, listing, traverse, rounded>>

\* getRootEntity(r): the roots it may return; none: its second result is false
getRootEntity(rootId, rootType) ==
    IF rootId = "" THEN {}
    ELSE IF rootType = "" THEN {}
    ELSE GetEntity(entity, relation, rootId, GetTypeFromTypeName(rootType))

\* the recursive term of the traverse query of GetChildEntities, evaluated on
\* the working table work: the children of its nodes
TraverseChildren(work) == {r[2] : r \in {x \in relation : x[1] \in work}}

\* a listing request that names a root
Rooted(l, rootId, rootType) == l @@ [rootId |-> rootId, rootType |-> rootType]

\* GET /api/spaces, /api/buildings, /api/sensors with root[id] and root[type]:
\* the handler up to the query of GetChildEntities, whose non-recursive term
\* selects the root; or, when getRootEntity finds no root, the whole handler
getEntitiesRoot(p, entityType, rootId, rootType, page, size) ==
    /\ pc[p] = "idle"
    /\ LET l == Rooted(Listing("getEntities", entityType, ZeroTime, ZeroTime, page, size, Nil),
                       rootId, rootType)
       IN  IF getRootEntity(rootId, rootType) = {}
           THEN \E r \in GetEntities(entityType, page, size) :
                   IF r.err # NoError THEN AnswerListing(p, l, StatusInternalServerError)
                   ELSE IF size = 0 THEN AnswerListing(p, l, StatusPanic)
                   ELSE AnswerListing(p, [l EXCEPT !.response =
                                             Ptr(newHydraCollectionResult(TRUE, r.items, page, size,
                                                                          r.fullCount))],
                                      StatusOK)
           ELSE \E root \in getRootEntity(rootId, rootType) :
                   /\ pc' = [pc EXCEPT ![p] = "GetChildEntities"]
                   /\ req' = [req EXCEPT ![p] = [handler |-> "getEntities", event |-> NoRequest.event,
                                                 so |-> EmptySensorObservation]]
                   /\ listing' = [listing EXCEPT ![p] = l]
                   /\ traverse' = [traverse EXCEPT ![p] =
                                      [work |-> getNodeID(entity, root.Id, root.Type),
                                       rows |-> getNodeID(entity, root.Id, root.Type),
                                       evaluations |-> 0]]
                   /\ before' = [before EXCEPT ![p] = rows]
                   /\ UNCHANGED <<rows, idx, found, outcomes, err, status, cancelled, clock, decoded,
                                  entity, relation, rounded>>

\* one evaluation of the recursive term: its rows are added to traverse
\* (UNION ALL) and become the working table.  Of the number of evaluations,
\* which has no bound, the parity is kept.
TraverseStep(p) ==
    /\ pc[p] = "GetChildEntities"
    /\ traverse[p].work # {}
    /\ traverse' = [traverse EXCEPT ![p] =
                       [work |-> TraverseChildren(traverse[p].work),
                        rows |-> traverse[p].rows \cup TraverseChildren(traverse[p].work),
                        evaluations |-> (traverse[p].evaluations + 1) % 2]]
    /\ UNCHANGED <<rows, pc, req, idx, found, outcomes, err, status, before, cancelled, clock,
                   decoded, entity, relation, listing, rounded>>

\* the working table is empty: the query returns the ids of the traverse rows
\* of the requested type, grouped and in ascending order, GetChildEntities
\* fetches each with GetEntity, and the handler answers without a view
GetChildEntitiesReturn(p) ==
    /\ pc[p] = "GetChildEntities"
    /\ traverse[p].work = {}
    /\ LET entityType == listing[p].what
           ids == OrderByEntityId(entity, {n \in traverse[p].rows : entity[n].entity_type = entityType})
       IN  \E entities \in [DOMAIN ids -> UNION {GetEntity(entity, relation, entity[n].entity_id, entityType) :
                                                    n \in DOMAIN entity}] :
              /\ \A i \in DOMAIN ids :
                    entities[i] \in GetEntity(entity, relation, entity[ids[i]].entity_id, entityType)
              /\ listing' = [listing EXCEPT ![p].response =
                                Ptr(newHydraCollectionResult(FALSE, entities, -1, -1, Len(entities)))]
    /\ pc' = [pc EXCEPT ![p] = "done"]
    /\ status' = [status EXCEPT ![p] = StatusOK]
    /\ UNCHANGED <<rows, req, idx, found, outcomes, err, before, cancelled, clock, decoded,
                   entity, relation, traverse, rounded>>

\* the entities posted: a space, a building of it, a sensor of the building;
\* the sensor again as part of the space, the space as part of the building
\* and a building as part of itself; a building of a space that is not
\* stored; and a body json.Unmarshal rejects
TreeRequests ==
    {[valid |-> TRUE, e |-> e] :
        e \in {Entity(SpaceContext, "sp1", SpaceType, Nil),
               Entity(BuildingContext, "b1", BuildingType, Ptr(Property("sp1", SpaceType))),
               Entity(SensorContext, "se1", SensorType, Ptr(Property("b1", BuildingType))),
               Entity(SensorContext, "se1", SensorType, Ptr(Property("sp1", SpaceType))),
               Entity(SpaceContext, "sp1", SpaceType, Ptr(Property("b1", BuildingType))),
               Entity(BuildingContext, "b2", BuildingType, Ptr(Property("b2", BuildingType))),
               Entity(BuildingContext, "b2", BuildingType, Ptr(Property("sp2", SpaceType)))}}
        \cup {[valid |-> FALSE, e |-> EmptyEntity]}

\* the file seeded: two sensors of one building of one space
SeedRecords == {<<rec("sp1", "b1", "se1"), rec("sp1", "b1", "se2")>>}

\* the roots named: the space, the building (its type name in two spellings),
\* the second building, and a building that is not stored
RootsNamed ==
    {<<"sp1", "space">>, <<"b1", "Building">>, <<"b1", "building">>, <<"b2", "building">>,
     <<"b3", "building">>}

\* the page and size sent along
RootedPaging == {<<0, 2>>, <<1, 1>>}

\* SpecTree: entities posted and seeded, and rooted listings requested, one
\* request at a time
NextTree ==
    \/ \E body \in TreeRequests : createEntity(1, body)
    \/ \E recs \in SeedRecords : Seed(recs)
    \/ \E t \in {BuildingType, SensorType}, root \in RootsNamed, paging \in RootedPaging :
          getEntitiesRoot(1, t, root[1], root[2], paging[1], paging[2])
    \/ TraverseStep(1)
    \/ GetChildEntitiesReturn(1)
    \/ Respond(1)

SpecTree == Init /\ [][NextTree]_vars

\* the recursive query is evaluated as long as it has rows to work on, and the
\* handler goes on when the query returns
SpecTreeFair == SpecTree /\ WF_vars(TraverseStep(1)) /\ WF_vars(GetChildEntitiesReturn(1))

(***************************************************************************)
(* Properties                                                              *)
(***************************************************************************)
\* row r belongs to the tuple (deviceId, sensorId, quantityKind) of candidate o
SameTuple(r, dev, o) ==
    r.device_id = dev /\ r.sensor_id = o.SensorId /\ r.quantity_kind = o.QuantityKind

\* row r carries the (value, valueString, valueBoolean) triple of candidate o
SameTriple(r, o) ==
    r.value = o.Value /\ r.value_string = o.ValueString /\ r.value_boolean = o.ValueBoolean

\* the rows of tbl in candidate o's window: its tuple, and observationTime
\* strictly greater than o's observationTime minus 60 s
InWindow(tbl, dev, o) ==
    {j \in DOMAIN tbl : SameTuple(tbl[j], dev, o) /\ tbl[j].observation_time + 60 > o.ObservationTime}

\* the latest of them
LatestInWindow(tbl, dev, o) ==
    {j \in InWindow(tbl, dev, o) :
        \A k \in InWindow(tbl, dev, o) : tbl[k].observation_time <= tbl[j].observation_time}

\* rows of one table, of the same tuple
SameTupleRows(r1, r2) ==
    r1.device_id = r2.device_id /\ r1.sensor_id = r2.sensor_id /\ r1.quantity_kind = r2.quantity_kind

SameTripleRows(r1, r2) ==
    r1.value = r2.value /\ r1.value_string = r2.value_string /\ r1.value_boolean = r2.value_boolean

\* two rows less than 60 s apart
Within60(r1, r2) ==
    r1.observation_time < r2.observation_time + 60 /\ r2.observation_time < r1.observation_time + 60

Cand(p, i) == req[p].so.Observations[i]
Dev(p) == req[p].so.DeviceID

\* the rows request p has inserted by the time it is through with n observations
RECURSIVE StoredRows(_, _)
StoredRows(p, n) ==
    IF n = 0 THEN <<>>
    ELSE IF outcomes[p][n].result = "stored"
         THEN Append(StoredRows(p, n - 1), Row(Dev(p), Cand(p, n)))
         ELSE StoredRows(p, n - 1)

\* the table as it was when request p looked up its i-th observation, for
\* requests served one at a time
TableAt(p, i) == before[p] \o StoredRows(p, i - 1)

Failed(out) == out.result \in {"lookup failed", "insert failed"}

\* C1: duplicate suppression.  With requests served one at a time: when the
\* latest row in a candidate's window carries the candidate's triple (and the
\* lookup itself did not fail), the candidate is discarded and nothing is
\* stored for it: the table is exactly the table before the request plus the
\* candidates recorded as stored.  A discard is no error: a request whose
\* observations were all stored or discarded and whose commit succeeded
\* returns nil and is answered 201.  Hence the same value sent n times inside
\* one window leaves one row: two rows of a tuple less than 60 s apart with the
\* same triple exist only if a different triple was stored for that tuple too.
C1_DuplicateSuppressed ==
    /\ \A p \in Procs : pc[p] # "idle" =>
        /\ rows = before[p] \o StoredRows(p, Len(outcomes[p]))
        /\ \A i \in DOMAIN outcomes[p] :
             LET L == LatestInWindow(TableAt(p, i), Dev(p), Cand(p, i))
             IN  (/\ L # {}
                  /\ \A j \in L : SameTriple(TableAt(p, i)[j], Cand(p, i))
                  /\ outcomes[p][i].result # "lookup failed")
                    => outcomes[p][i].result = "discarded"
        /\ (pc[p] = "done" /\ status[p] \in {StatusCreated, StatusInternalServerError}
              /\ \A i \in DOMAIN outcomes[p] : ~Failed(outcomes[p][i]))
             => /\ err[p] \in {NoError, "begin", "commit"}
                /\ (err[p] = NoError <=> status[p] = StatusCreated)
    /\ \A i, j \in DOMAIN rows :
         (i # j /\ SameTupleRows(rows[i], rows[j]) /\ SameTripleRows(rows[i], rows[j])
              /\ Within60(rows[i], rows[j]))
           => \E k \in DOMAIN rows :
                SameTupleRows(rows[k], rows[i]) /\ ~SameTripleRows(rows[k], rows[i])

\* a batch of two equal readings 30 s apart left one row, and the request was answered 201
C1_Witness ==
    \E p \in Procs :
        /\ pc[p] = "done" /\ status[p] = StatusCreated
        /\ Len(outcomes[p]) = 2
        /\ outcomes[p][1].result = "stored" /\ outcomes[p][2].result = "discarded"
        /\ Len(rows) = Len(before[p]) + 1

\* C2: oscillation is preserved.  With requests served one at a time: a
\* candidate whose triple is already stored in its window, but not in the
\* latest row of the window, is stored (unless a statement fails), right after
\* the rows that were there: A, B, A with increasing times inside one window
\* are all three stored.
C2_OscillationPreserved ==
    \A p \in Procs : pc[p] # "idle" =>
        \A i \in DOMAIN outcomes[p] :
            LET tbl == TableAt(p, i)
                W == InWindow(tbl, Dev(p), Cand(p, i))
                L == LatestInWindow(tbl, Dev(p), Cand(p, i))
            IN  (/\ \E j \in W : SameTriple(tbl[j], Cand(p, i))
                 /\ \A j \in L : ~SameTriple(tbl[j], Cand(p, i))
                 /\ ~Failed(outcomes[p][i]))
                   => /\ outcomes[p][i].result = "stored"
                      /\ Len(rows) > Len(tbl)
                      /\ rows[Len(tbl) + 1] = Row(Dev(p), Cand(p, i))

\* the table holds A, B, A of one tuple, stored in this order with increasing
\* times less than 60 s apart
C2_Witness ==
    \E a, b, c \in DOMAIN rows :
        /\ a < b /\ b < c
        /\ SameTupleRows(rows[a], rows[b]) /\ SameTupleRows(rows[a], rows[c])
        /\ rows[a].observation_time < rows[b].observation_time
        /\ rows[b].observation_time < rows[c].observation_time
        /\ rows[c].observation_time < rows[a].observation_time + 60
        /\ SameTripleRows(rows[a], rows[c]) /\ ~SameTripleRows(rows[a], rows[b])

\* C3: batch atomicity.  When AddObservation returns an error, none of the
\* batch's observations is in the table: the table is what it was when the
\* request arrived (requests served one at a time).
C3_BatchAtomic ==
    \A p \in Procs : (pc[p] = "done" /\ err[p] # NoError) => rows = before[p]

\* C4: no duplicate under concurrency.  Two submissions of the same tuple and
\* triple with times less than 60 s apart are never both stored after both saw
\* no prior row.
C4_NoConcurrentDuplicate ==
    \A p, q \in Procs :
        (/\ p # q
         /\ outcomes[p] # <<>> /\ outcomes[q] # <<>>
         /\ Dev(p) = Dev(q)
         /\ SameTupleRows(Row(Dev(p), Cand(p, 1)), Row(Dev(q), Cand(q, 1)))
         /\ SameTripleRows(Row(Dev(p), Cand(p, 1)), Row(Dev(q), Cand(q, 1)))
         /\ Within60(Row(Dev(p), Cand(p, 1)), Row(Dev(q), Cand(q, 1))))
           => ~(/\ outcomes[p][1] = Outcome("stored", NoRows)
                /\ outcomes[q][1] = Outcome("stored", NoRows))

\* C5: window boundary.  With requests served one at a time: a candidate with
\* no row of its tuple later than its observationTime minus 60 s is stored
\* whatever its triple (unless a statement fails); the lookup returned no row.
C5_WindowBoundary ==
    \A p \in Procs : pc[p] # "idle" =>
        \A i \in DOMAIN outcomes[p] :
            (InWindow(TableAt(p, i), Dev(p), Cand(p, i)) = {} /\ ~Failed(outcomes[p][i]))
              => /\ outcomes[p][i] = Outcome("stored", NoRows)
                 /\ rows[Len(TableAt(p, i)) + 1] = Row(Dev(p), Cand(p, i))

\* a candidate was stored whose tuple held the same triple exactly 60 s earlier
C5_Witness ==
    \E p \in Procs :
        /\ pc[p] = "done" /\ status[p] = StatusCreated
        /\ Len(outcomes[p]) = 1 /\ outcomes[p][1].result = "stored"
        /\ \E j \in DOMAIN before[p] :
             /\ SameTuple(before[p][j], Dev(p), Cand(p, 1))
             /\ SameTriple(before[p][j], Cand(p, 1))
             /\ before[p][j].observation_time + 60 = Cand(p, 1).ObservationTime
        /\ rows = Append(before[p], Row(Dev(p), Cand(p, 1)))

\* C6 as stated: no two rows of one tuple less than 60 s apart carry the same triple
C6_FirstOccurrenceOnly ==
    \A i, j \in DOMAIN rows :
        (i # j /\ SameTupleRows(rows[i], rows[j]) /\ Within60(rows[i], rows[j]))
          => ~SameTripleRows(rows[i], rows[j])

\* C6 amended: with requests served one at a time, no row carries the triple
\* of the row that was the latest of its tuple in its 60 s window when it was
\* stored (where several rows were the latest, of at least one of them)
C6_DiffersFromLatestWhenStored ==
    \A j \in DOMAIN rows :
        LET tbl == SubSeq(rows, 1, j - 1)
            W == {k \in DOMAIN tbl : /\ SameTupleRows(tbl[k], rows[j])
                                     /\ tbl[k].observation_time + 60 > rows[j].observation_time}
            L == {k \in W : \A l \in W : tbl[l].observation_time <= tbl[k].observation_time}
        IN  L = {} \/ \E k \in L : ~SameTripleRows(tbl[k], rows[j])

\* a row was stored into a window that held its triple already, after a later
\* row with another triple
C6_Witness ==
    \E i, k, j \in DOMAIN rows :
        /\ i < j /\ k < j
        /\ SameTupleRows(rows[i], rows[j]) /\ SameTupleRows(rows[k], rows[j])
        /\ SameTripleRows(rows[i], rows[j]) /\ ~SameTripleRows(rows[k], rows[j])
        /\ rows[i].observation_time + 60 > rows[j].observation_time
        /\ rows[k].observation_time > rows[i].observation_time

\* C7: tuple isolation.  With requests served one at a time: a candidate is
\* discarded only if a row of its own tuple (same deviceId, sensorId and
\* quantityKind) in its window carries its triple; and a candidate whose tuple
\* has no row at all is stored (unless a statement fails), whatever rows other
\* tuples hold.
C7_TupleIsolation ==
    \A p \in Procs : pc[p] # "idle" =>
        \A i \in DOMAIN outcomes[p] :
            LET tbl == TableAt(p, i)
            IN  /\ outcomes[p][i].result = "discarded"
                     => \E j \in InWindow(tbl, Dev(p), Cand(p, i)) : SameTriple(tbl[j], Cand(p, i))
                /\ ((\A j \in DOMAIN tbl : ~SameTuple(tbl[j], Dev(p), Cand(p, i)))
                        /\ ~Failed(outcomes[p][i]))
                     => outcomes[p][i].result = "stored"

\* a candidate was stored although rows with its sensor, time and triple existed
\* for the other quantity kind, the other sensor and the other device
C7_Witness ==
    \E p \in Procs :
        /\ pc[p] = "done" /\ status[p] = StatusCreated
        /\ Len(outcomes[p]) = 1 /\ outcomes[p][1].result = "stored"
        /\ Len(before[p]) = 2
        /\ \A j \in DOMAIN before[p] :
             /\ SameTriple(before[p][j], Cand(p, 1))
             /\ before[p][j].observation_time = Cand(p, 1).ObservationTime
             /\ ~SameTuple(before[p][j], Dev(p), Cand(p, 1))
        /\ \E j \in DOMAIN before[p] :
             /\ before[p][j].device_id = Dev(p) /\ before[p][j].sensor_id = Cand(p, 1).SensorId
             /\ before[p][j].quantity_kind # Cand(p, 1).QuantityKind
        /\ \E j \in DOMAIN before[p] : before[p][j].device_id # Dev(p)

\* request p serves a message.accepted cloud event that parsed and unmarshalled
IsMessageAccepted(p) ==
    /\ pc[p] # "idle"
    /\ req[p].handler = "handleCloudevents"
    /\ req[p].event.parsed /\ req[p].event.valid
    /\ req[p].event.Type = MessageAcceptedName

\* C8: normalization precedes deduplication.  For a message.accepted event the
\* stored value is the raw value rounded (1 digit for Temperature, 2
\* otherwise), and the event is discarded when the latest row in its window
\* holds that rounded value: 1.232 and 1.233 in one window leave one row, 1.23.
C8_NormalizedBeforeDedup ==
    \A p \in Procs : IsMessageAccepted(p) =>
        \A i \in DOMAIN outcomes[p] :
            LET m == req[p].event.m
                tbl == TableAt(p, i)
                o == [Cand(p, i) EXCEPT !.Value =
                         mapFloatValue(m.Pack[2].Value,
                                       IF Cand(p, i).QuantityKind = "Temperature" THEN 1 ELSE 2)]
                L == LatestInWindow(tbl, Dev(p), o)
            IN  /\ outcomes[p][i].result = "stored" => rows[Len(tbl) + 1].value = o.Value
                /\ (L # {} /\ (\A j \in L : SameTriple(tbl[j], o)) /\ ~Failed(outcomes[p][i]))
                     => outcomes[p][i].result = "discarded"

\* C9: store failures propagate.  A failed lookup or insert is the last thing
\* AddObservation does: the observation it failed on is the last one processed,
\* the request is over with that error and answered 500, and the table holds
\* only what was stored before the failure.  A request answered 201 had no
\* failure and no error.
C9_StoreFailuresPropagate ==
    \A p \in Procs : pc[p] # "idle" =>
        /\ \A i \in DOMAIN outcomes[p] :
             Failed(outcomes[p][i])
               => /\ i = Len(outcomes[p])
                  /\ pc[p] = "done"
                  /\ err[p] = (IF outcomes[p][i].result = "lookup failed" THEN "lookup" ELSE "insert")
                  /\ status[p] = StatusInternalServerError
                  /\ rows = before[p] \o StoredRows(p, i - 1)
        /\ status[p] = StatusCreated
             => /\ err[p] = NoError
                /\ \A i \in DOMAIN outcomes[p] : ~Failed(outcomes[p][i])
                /\ Len(outcomes[p]) = Len(req[p].so.Observations)

\* the lookup of the first of a cloud event's two observations failed: the
\* second was not processed and the answer is 500
C9_Witness ==
    \E p \in Procs :
        /\ pc[p] = "done"
        /\ req[p].handler = "handleCloudevents"
        /\ Len(req[p].so.Observations) = 2
        /\ outcomes[p] = <<Outcome("lookup failed", ScanError)>>
        /\ status[p] = StatusInternalServerError

\* C10: decoder A rejection.  A message.accepted envelope of two records whose
\* record 0 has an empty string value, or whose quantity kind resolves to the
\* empty string, is decoded to ok = false with no observation by both decoders;
\* the handler answers 400 without calling the store, and the table is as it was.
C10_DecoderARejects ==
    \A p \in Procs :
        (/\ IsMessageAccepted(p)
         /\ Len(req[p].event.m.Pack) >= 2
         /\ (req[p].event.m.Pack[1].StringValue = "" \/ mapQuantityKind(req[p].event.m) = ""))
           => /\ pc[p] = "done"
              /\ status[p] = StatusBadRequest
              /\ req[p].so = EmptySensorObservation
              /\ outcomes[p] = <<>>
              /\ rows = before[p]
              /\ MessageAccepted_MapToObservation(req[p].event.m) = Decoded(EmptySensorObservation, FALSE)

\* an envelope with an empty sensor id, a base name and a value was answered 400
\* while the table held rows
C10_Witness ==
    \E p \in Procs :
        /\ IsMessageAccepted(p)
        /\ Len(req[p].event.m.Pack) >= 2
        /\ req[p].event.m.Pack[1].StringValue = ""
        /\ req[p].event.m.Pack[1].BaseName # ""
        /\ req[p].event.m.Pack[2].Value # Nil
        /\ status[p] = StatusBadRequest
        /\ rows # <<>>

\* request p is a direct call of the application decoder of message.accepted
IsDecodeMessageAccepted(p) ==
    pc[p] # "idle" /\ req[p].handler = "MessageAccepted.MapToObservation"

\* request p is a direct call of the application decoder of function.updated
IsDecodeFunctionUpdated(p) ==
    pc[p] # "idle" /\ req[p].handler = "FunctionUpdated.MapToObservation"

\* the type tags the decoder of function.updated knows
RecognisedTypes == {"building", "counter", "level", "presence", "timer", "waterquality"}

\* the payload variant that belongs to type tag t
VariantOf(m, t) ==
    CASE t = "building" -> m.Building
      [] t = "counter" -> m.Counter
      [] t = "level" -> m.Level
      [] t = "presence" -> m.Presence
      [] t = "timer" -> m.Timer
      [] t = "waterquality" -> m.WaterQuality

\* a function.updated envelope with a recognised tag and all the tag requires
WellFormed(m) ==
    /\ m.Type \in RecognisedTypes
    /\ VariantOf(m, m.Type) # Nil
    /\ m.Type = "timer" => Deref(m.Timer).EndTime # Nil /\ Deref(m.Timer).Duration # Nil

\* C11: decoder A on short envelopes.  Decoding a message.accepted envelope of
\* fewer than two records returns ok = false and no observation; it does not panic.
C11_ShortEnvelopeRejected ==
    \A p \in Procs :
        (IsDecodeMessageAccepted(p) /\ Len(req[p].event.m.Pack) < 2)
          => decoded[p] = Decoded(EmptySensorObservation, FALSE)

\* C12: decoder B on a recognised type tag with missing required fields.
\* Decoding a function.updated envelope whose tag is recognised but whose
\* variant is absent, or a timer without end-time or duration, returns
\* ok = false and no observation; it does not panic.
C12_MissingVariantRejected ==
    \A p \in Procs :
        (/\ IsDecodeFunctionUpdated(p)
         /\ req[p].event.m.Type \in RecognisedTypes
         /\ ~WellFormed(req[p].event.m))
          => decoded[p] = Decoded(EmptySensorObservation, FALSE)

\* request p serves a function.updated cloud event that parsed and unmarshalled
IsFunctionUpdated(p) ==
    /\ pc[p] # "idle"
    /\ req[p].handler = "handleCloudevents"
    /\ req[p].event.parsed /\ req[p].event.valid
    /\ req[p].event.Type = FunctionUpdatedName

\* C13: decoder B on an unknown type tag.  A function.updated envelope whose
\* type tag is not one of the six recognised tags, compared case-sensitively,
\* is decoded to ok = false with no observation by both decoders whatever
\* variants it carries; the handler answers 400 without calling the store and
\* the table is as it was.
C13_UnknownTypeRejected ==
    \A p \in Procs :
        (IsFunctionUpdated(p) /\ req[p].event.m.Type \notin RecognisedTypes)
          => /\ pc[p] = "done"
             /\ status[p] = StatusBadRequest
             /\ req[p].so = EmptySensorObservation
             /\ outcomes[p] = <<>>
             /\ rows = before[p]
             /\ FunctionUpdated_MapToObservation(req[p].event.m, clock)
                    = Decoded(EmptySensorObservation, FALSE)

\* an envelope tagged "Building" that carries a building variant was answered
\* 400 while the table held rows
C13_Witness ==
    \E p \in Procs :
        /\ IsFunctionUpdated(p)
        /\ req[p].event.m.Type = "Building"
        /\ req[p].event.m.Building # Nil
        /\ status[p] = StatusBadRequest
        /\ rows # <<>>

\* C14: decoder B cardinality.  A well-formed "building" envelope is decoded
\* to exactly two observations, Energy with the variant's energy and Power with
\* its power, both stamped with the same observationTime; every other
\* well-formed envelope is decoded to exactly one observation.
C14_Cardinality ==
    \A p \in Procs :
        (IsDecodeFunctionUpdated(p) /\ WellFormed(req[p].event.m))
          => LET m == req[p].event.m
                 obs == decoded[p].so.Observations
             IN  /\ decoded[p].ok /\ ~decoded[p].panic
                 /\ IF m.Type = "building"
                    THEN /\ Len(obs) = 2
                         /\ obs[1].QuantityKind = "Energy" /\ obs[1].Value = Ptr(Deref(m.Building).Energy)
                         /\ obs[2].QuantityKind = "Power" /\ obs[2].Value = Ptr(Deref(m.Building).Power)
                         /\ obs[1].ObservationTime = obs[2].ObservationTime
                    ELSE Len(obs) = 1

\* a building envelope with energy 10.0 and power 5.0 was decoded to two
\* observations with these values
C14_Witness ==
    \E p \in Procs :
        /\ IsDecodeFunctionUpdated(p)
        /\ req[p].event.m.Type = "building"
        /\ Len(decoded[p].so.Observations) = 2
        /\ decoded[p].so.Observations[1].Value = Ptr(10000)
        /\ decoded[p].so.Observations[2].Value = Ptr(5000)

\* the numbers of the decoder inputs rounded to 1 and to 2 decimal digits
ExpectedRounding(v, digits) ==
    CASE v = Nil -> Nil
      [] v = Ptr(12346) -> IF digits = 1 THEN Ptr(12300) ELSE Ptr(12350)
      [] v = Ptr(1232) -> IF digits = 1 THEN Ptr(1200) ELSE Ptr(1230)
      [] v = Ptr(1233) -> IF digits = 1 THEN Ptr(1200) ELSE Ptr(1230)

\* C15: decoder A numeric precision.  An accepted message.accepted envelope
\* yields one observation whose value is record 1's number rounded to 1 digit
\* when the kind is exactly "Temperature" and to 2 digits otherwise; an envelope
\* without a number is accepted too and its value stays absent.
C15_NumericPrecision ==
    \A p \in Procs :
        (/\ IsDecodeMessageAccepted(p)
         /\ Len(req[p].event.m.Pack) >= 2
         /\ req[p].event.m.Pack[1].StringValue # ""
         /\ req[p].event.m.Pack[1].BaseName # "")
          => LET m == req[p].event.m
                 obs == decoded[p].so.Observations
             IN  /\ decoded[p].ok
                 /\ Len(obs) = 1
                 /\ obs[1].Value = ExpectedRounding(m.Pack[2].Value,
                                       IF obs[1].QuantityKind = "Temperature" THEN 1 ELSE 2)

\* 12.346 of kind Temperature was decoded to 12.3
C15_Witness ==
    \E p \in Procs :
        /\ IsDecodeMessageAccepted(p)
        /\ decoded[p].ok
        /\ req[p].event.m.Pack[2].Value = Ptr(12346)
        /\ decoded[p].so.Observations[1].QuantityKind = "Temperature"
        /\ decoded[p].so.Observations[1].Value = Ptr(12300)

\* the quantity kind a base name and record 1's name stand for
ExpectedKind(bn, n) ==
    CASE bn \in {"urn:oma:lwm2m:ext:3428", "Urn:Oma:Lwm2m:Ext:3428"} ->
             IF n = "17" THEN "Concentration" ELSE "diwise:AirQuality"
      [] bn = "urn:oma:lwm2m:ext:3327" -> "Conductivity"
      [] bn = "urn:oma:lwm2m:ext:3200" -> "diwise:DigitalInput"
      [] bn = "urn:oma:lwm2m:ext:3330" -> "Distance"
      [] bn = "urn:oma:lwm2m:ext:3331" -> "Energy"
      [] bn = "urn:oma:lwm2m:ext:3304" -> "RelativeHumidity"
      [] bn = "urn:oma:lwm2m:ext:3301" -> "Illuminance"
      [] bn = "urn:oma:lwm2m:ext:3328" -> "Power"
      [] bn = "urn:oma:lwm2m:ext:3302" -> "diwise:Presence"
      [] bn = "urn:oma:lwm2m:ext:3323" -> "Pressure"
      [] bn \in {"urn:oma:lwm2m:ext:3303", "URN:OMA:LWM2M:EXT:3303"} -> "Temperature"
      [] bn = "urn:oma:lwm2m:ext:3424" -> "Volume"
      [] OTHER -> bn

\* C16: quantity mapping.  For an envelope of two records with a sensor id:
\* the kind of the decoded observation is the canonical name of record 0's
\* base name, compared with the twelve codes whatever its case; the air-quality
\* code gives "Concentration" exactly when record 1 is named "17" and
\* "diwise:AirQuality" otherwise; any other base name is the kind as it is
\* spelled (an empty one rejects the envelope).
C16_QuantityMapping ==
    \A p \in Procs :
        (/\ IsDecodeMessageAccepted(p)
         /\ Len(req[p].event.m.Pack) >= 2
         /\ req[p].event.m.Pack[1].StringValue # "")
          => LET m == req[p].event.m
                 k == ExpectedKind(m.Pack[1].BaseName, m.Pack[2].Name)
             IN  /\ ~decoded[p].panic
                 /\ IF k = "" THEN decoded[p] = Decoded(EmptySensorObservation, FALSE)
                    ELSE /\ decoded[p].ok
                         /\ decoded[p].so.Observations[1].QuantityKind = k

\* the temperature code in upper case was decoded to kind "Temperature"
C16_Witness ==
    \E p \in Procs :
        /\ IsDecodeMessageAccepted(p)
        /\ Len(req[p].event.m.Pack) >= 2
        /\ req[p].event.m.Pack[1].BaseName = "URN:OMA:LWM2M:EXT:3303"
        /\ decoded[p].ok
        /\ decoded[p].so.Observations[1].QuantityKind = "Temperature"

\* C17: decoder B per-variant shape.  For a well-formed envelope the deviceId
\* is type:subType:id and every sensorId is the id; counter gives kind
\* "diwise:Level" with the counter as number and the state as boolean; level
\* gives "diwise:Level" with current as number and no boolean; presence gives a
\* boolean-only observation of kind "diwise:Lifebuoy" exactly when the subType
\* is "lifebuoy" and "diwise:Presence" otherwise; timer gives "diwise:Timer"
\* with the duration in seconds as number and the state as boolean.
C17_VariantShape ==
    \A p \in Procs :
        (IsDecodeFunctionUpdated(p) /\ WellFormed(req[p].event.m))
          => LET m == req[p].event.m
                 so == decoded[p].so
                 o == so.Observations[1]
             IN  /\ decoded[p].ok
                 /\ so.DeviceID = m.Type \o ":" \o m.SubType \o ":" \o m.Id
                 /\ \A i \in DOMAIN so.Observations : so.Observations[i].SensorId = m.Id
                 /\ m.Type = "counter"
                      => /\ o.QuantityKind = "diwise:Level"
                         /\ o.Value # Nil /\ Deref(o.Value) = Deref(m.Counter).Counter * Milli
                         /\ o.ValueBoolean = Ptr(Deref(m.Counter).State)
                         /\ o.ValueString = Nil
                 /\ m.Type = "level"
                      => /\ o.QuantityKind = "diwise:Level"
                         /\ o.Value = Ptr(Deref(m.Level).Current)
                         /\ o.ValueBoolean = Nil /\ o.ValueString = Nil
                 /\ m.Type = "presence"
                      => /\ o.QuantityKind = (IF m.SubType = "lifebuoy" THEN "diwise:Lifebuoy"
                                              ELSE "diwise:Presence")
                         /\ o.Value = Nil /\ o.ValueString = Nil
                         /\ o.ValueBoolean = Ptr(Deref(m.Presence).State)
                 /\ m.Type = "timer"
                      => /\ o.QuantityKind = "diwise:Timer"
                         /\ o.Value # Nil
                         /\ Deref(o.Value) * Milli = Deref(Deref(m.Timer).Duration)
                         /\ o.ValueBoolean = Ptr(Deref(m.Timer).State)
                         /\ o.ValueString = Nil

\* a presence envelope of subType "lifebuoy" was decoded to the boolean-only
\* kind "diwise:Lifebuoy" of device presence:lifebuoy:s1
C17_Witness ==
    \E p \in Procs :
        /\ IsDecodeFunctionUpdated(p)
        /\ req[p].event.m.Type = "presence" /\ req[p].event.m.SubType = "lifebuoy"
        /\ decoded[p].ok
        /\ decoded[p].so.DeviceID = "presence:lifebuoy:s1"
        /\ decoded[p].so.Observations[1].QuantityKind = "diwise:Lifebuoy"
        /\ decoded[p].so.Observations[1].Value = Nil
        /\ decoded[p].so.Observations[1].ValueBoolean = Ptr(TRUE)

\* C18: decoder B observation time source.  When a well-formed envelope is
\* decoded, a timer observation carries the variant's end-time, a waterquality
\* observation the variant's timestamp (with kind "Temperature" and the
\* temperature rounded to 1 digit), and the observations of building, counter,
\* level and presence the wall-clock time of the call.
C18_TimeSource ==
    [][\A p \in Procs :
          (/\ pc[p] = "idle" /\ pc'[p] = "done"
           /\ req'[p].handler = "FunctionUpdated.MapToObservation"
           /\ WellFormed(req'[p].event.m))
            => LET m == req'[p].event.m
                   obs == decoded'[p].so.Observations
               IN  /\ decoded'[p].ok
                   /\ m.Type = "timer"
                        => obs[1].ObservationTime = Deref(Deref(m.Timer).EndTime)
                   /\ m.Type = "waterquality"
                        => /\ obs[1].ObservationTime = Deref(m.WaterQuality).Timestamp
                           /\ obs[1].QuantityKind = "Temperature"
                           /\ obs[1].Value = ExpectedRounding(Ptr(Deref(m.WaterQuality).Temperature), 1)
                   /\ m.Type \in {"building", "counter", "level", "presence"}
                        => \A i \in DOMAIN obs : obs[i].ObservationTime = clock
      ]_vars

\* with the clock at 0, a timer that ended at 30 was decoded to an observation at 30
C18_Witness ==
    \E p \in Procs :
        /\ IsDecodeFunctionUpdated(p)
        /\ decoded[p].ok
        /\ clock = 0
        /\ req[p].event.m.Type = "timer"
        /\ decoded[p].so.Observations[1].ObservationTime = 30

\* request p is a listing that was answered 200
IsListed(p, op) ==
    pc[p] # "idle" /\ req[p].handler = op /\ status[p] = StatusOK

\* the entities of type t, all of them, in the order of the listing
AllEntities(t) ==
    OrderByEntityId(entity, {n \in DOMAIN entity : entity[n].entity_type = t})

\* the rows of sensor sid between starting and ending, all of them
AllObservations(sid, starting, ending) ==
    {i \in DOMAIN rows : /\ rows[i].sensor_id = sid
                         /\ starting <= rows[i].observation_time
                         /\ rows[i].observation_time <= ending}

\* C19: the total count is page-independent.  Whatever page and size a
\* listing of entities or of observations asks for, the hydra:totalItems of the
\* response is the number of all items that match the filter, also for a page
\* beyond the last item.
C19_TotalIsPageIndependent ==
    \A p \in Procs :
        /\ IsListed(p, "getEntities")
             => Deref(listing[p].response).TotalItems = Len(AllEntities(listing[p].what))
        /\ IsListed(p, "getObservations")
             => Deref(listing[p].response).TotalItems
                    = Cardinality(AllObservations(listing[p].what, listing[p].starting,
                                                  listing[p].ending))

\* C20: pages partition the listing.  For size > 0, page p of a listing holds
\* exactly the items at positions p*size .. p*size+size-1 of the full ordered
\* result (for observations: of the full result in an order by observation time).
C20_PagesPartition ==
    \A p \in Procs :
        /\ (IsListed(p, "getEntities") /\ listing[p].size > 0 /\ listing[p].page >= 0)
             => LET all == AllEntities(listing[p].what)
                    expected == OffsetLimit(all, listing[p].page * listing[p].size, listing[p].size)
                    member == Deref(listing[p].response).Member
                IN  /\ Len(member) = Len(expected)
                    /\ \A i \in DOMAIN member : member[i].Id = entity[expected[i]].entity_id
        /\ (IsListed(p, "getObservations") /\ listing[p].size > 0 /\ listing[p].page >= 0)
             => LET all == AllObservations(listing[p].what, listing[p].starting, listing[p].ending)
                    n == Cardinality(all)
                    member == Deref(listing[p].response).Member
                IN  \E o \in [1..n -> all] :
                        /\ \A i, j \in 1..n : i # j => o[i] # o[j]
                        /\ \A i, j \in 1..n :
                             i < j => rows[o[i]].observation_time <= rows[o[j]].observation_time
                        /\ LET expected == OffsetLimit(o, listing[p].page * listing[p].size,
                                                       listing[p].size)
                           IN  /\ Len(member) = Len(expected)
                               /\ \A i \in DOMAIN member :
                                    member[i] = Observation(rows[expected[i]].observation_time,
                                                    Triple(rows[expected[i]].value,
                                                           rows[expected[i]].value_string,
                                                           rows[expected[i]].value_boolean),
                                                    rows[expected[i]].quantity_kind, listing[p].what)

\* the nodes that are part of a node of S
Children(S) == {r[2] : r \in {x \in relation : x[1] \in S}}

\* the least set of nodes that holds S and the children of its nodes
RECURSIVE Closure(_)
Closure(S) == IF Children(S) \subseteq S THEN S ELSE Closure(S \cup Children(S))

\* the descendants of node n: the nodes that are part of n, directly or
\* through other nodes
Descendants(n) == Closure(Children({n}))

\* request p named a stored root and was answered 200
RootedAnswered(p) ==
    /\ pc[p] = "done" /\ status[p] = StatusOK
    /\ "rootId" \in DOMAIN listing[p]
    /\ getRootEntity(listing[p].rootId, listing[p].rootType) # {}

\* the node of the root request p named
RootNode(p) ==
    CHOOSE n \in getNodeID(entity, listing[p].rootId, GetTypeFromTypeName(listing[p].rootType)) : TRUE

\* C21: descendant query.  After any sequence of AddEntity and Seed calls,
\* what GetChildEntities(root, type) returns is exactly the entities of the
\* requested type that are descendants of root through the part-of relation
\* at any depth, each exactly once, in ascending id order, each with IsPartOf
\* naming a direct parent of it.
C21_DescendantQuery ==
    \A p \in Procs : RootedAnswered(p) =>
        LET expected == OrderByEntityId(entity, {n \in Descendants(RootNode(p)) :
                                                    entity[n].entity_type = listing[p].what})
            member == Deref(listing[p].response).Member
        IN  /\ Len(member) = Len(expected)
            /\ \A i \in DOMAIN member :
                 /\ i \in DOMAIN expected
                 /\ member[i].Id = entity[expected[i]].entity_id
                 /\ member[i].Type = listing[p].what
                 /\ member[i].IsPartOf # Nil
                 /\ \E q \in DOMAIN entity :
                      /\ <<q, expected[i]>> \in relation
                      /\ Deref(member[i].IsPartOf) = Property(entity[q].entity_id, entity[q].entity_type)

\* the step is a call of AddEntity(e) by request p (POST of a body that
\* json.Unmarshal accepts)
IsAddEntity(p, e) ==
    /\ pc[p] = "idle" /\ pc'[p] = "done"
    /\ req'[p].handler = "createEntity"
    /\ listing'[p].e = e /\ e # EmptyEntity

\* the entities ever posted
EntitiesPosted == {body.e : body \in {b \in TreeRequests : b.valid}}

\* C22: AddEntity is idempotent.  Adding an entity whose (type, id) is stored
\* already returns no error and leaves the stored entities and relations as
\* they are; there is at most one stored entity per (type, id); and GetEntity
\* finds every entity that was added (it finds it after the add, and no
\* stored entity ever goes away).
C22_AddEntityIdempotent ==
    [][/\ \A p \in Procs : \A e \in EntitiesPosted :
            IsAddEntity(p, e) =>
                /\ getNodeID(entity, e.Id, e.Type) # {}
                     => /\ status'[p] = StatusCreated
                        /\ entity' = entity
                        /\ relation' = relation
                /\ GetEntity(entity', relation', e.Id, e.Type) # {}
       /\ \A m, n \in DOMAIN entity' :
            (entity'[m].entity_id = entity'[n].entity_id
                /\ entity'[m].entity_type = entity'[n].entity_type) => m = n
       /\ \A n \in DOMAIN entity : n \in DOMAIN entity' /\ entity'[n] = entity[n]
      ]_vars

\* a field of two triples compares equal: absent on both sides, or present
\* on both sides with equal content
FieldEqual(a, b) == (a = Nil /\ b = Nil) \/ (a # Nil /\ b # Nil /\ Deref(a) = Deref(b))

\* a field is present on one side and absent on the other
OneSided(a, b) == (a = Nil /\ b # Nil) \/ (a # Nil /\ b = Nil)

\* C23: value-triple equality.  isValueEqual is true exactly when each of
\* value, valueString and valueBoolean is absent on both sides or present on
\* both sides with equal content.  A candidate that has a field present where
\* the row found for it has none (or the other way round) is therefore not
\* discarded: it is stored, unless a statement fails.
C23_ValueTripleEquality ==
    /\ \A o \in {b.so.Observations[1] : b \in ValueRequests} : \A i \in DOMAIN rows :
         isValueEqual(o, rows[i].value, rows[i].value_string, rows[i].value_boolean)
            <=> /\ FieldEqual(o.Value, rows[i].value)
                /\ FieldEqual(o.ValueString, rows[i].value_string)
                /\ FieldEqual(o.ValueBoolean, rows[i].value_boolean)
    /\ \A p \in Procs : pc[p] # "idle" =>
         \A i \in DOMAIN outcomes[p] :
            LET tbl == TableAt(p, i)
                L == LatestInWindow(tbl, Dev(p), Cand(p, i))
            IN  (/\ L # {}
                 /\ \A j \in L : \/ OneSided(Cand(p, i).Value, tbl[j].value)
                                 \/ OneSided(Cand(p, i).ValueString, tbl[j].value_string)
                                 \/ OneSided(Cand(p, i).ValueBoolean, tbl[j].value_boolean))
                  => /\ outcomes[p][i].result # "discarded"
                     /\ ~Failed(outcomes[p][i]) => outcomes[p][i].result = "stored"

\* a reading with a number was stored after a reading of its tuple and time
\* that has the same string and no number
C23_Witness ==
    \E p \in Procs :
        /\ pc[p] = "done" /\ status[p] = StatusCreated
        /\ Len(outcomes[p]) = 1 /\ outcomes[p][1].result = "stored"
        /\ Len(before[p]) = 1 /\ Len(rows) = 2
        /\ rows[1].value = Nil /\ rows[2].value # Nil
        /\ rows[1].value_string # Nil /\ rows[2].value_string = rows[1].value_string
        /\ rows[1].value_boolean = rows[2].value_boolean

\* the rows of the tuple of row i were inserted in strictly increasing order
\* of observation time
InsertedInOrder(i) ==
    \A j, k \in DOMAIN rows :
        (j < k /\ SameTupleRows(rows[j], rows[i]) /\ SameTupleRows(rows[k], rows[i]))
          => rows[j].observation_time < rows[k].observation_time

\* rows i and j are of one tuple and no row of the tuple lies between them in time
AdjacentInTime(i, j) ==
    /\ SameTupleRows(rows[i], rows[j])
    /\ rows[i].observation_time < rows[j].observation_time
    /\ ~\E k \in DOMAIN rows :
          /\ SameTupleRows(rows[k], rows[i])
          /\ rows[i].observation_time < rows[k].observation_time
          /\ rows[k].observation_time < rows[j].observation_time

\* C24: in-order invariant.  With requests served one at a time: when the
\* observations of a tuple arrived with strictly increasing times (so that its
\* rows were inserted in that order), no two of its stored rows that are
\* adjacent in time and less than 60 s apart carry the same triple; and the
\* first observation submitted for a tuple is stored, unless a statement fails.
C24_InOrderInvariant ==
    /\ \A i, j \in DOMAIN rows :
         (InsertedInOrder(i) /\ AdjacentInTime(i, j) /\ Within60(rows[i], rows[j]))
           => ~SameTripleRows(rows[i], rows[j])
    /\ \A p \in Procs : pc[p] # "idle" =>
         \A i \in DOMAIN outcomes[p] :
            (/\ \A j \in DOMAIN TableAt(p, i) : ~SameTuple(TableAt(p, i)[j], Dev(p), Cand(p, i))
             /\ ~Failed(outcomes[p][i]))
              => outcomes[p][i].result = "stored"

\* 42 at 0 s and 43 at 30 s arrived in this order and are stored, and the 43
\* that arrived next, at 45 s, was discarded
C24_Witness ==
    \E p \in Procs :
        /\ pc[p] = "done" /\ status[p] = StatusCreated
        /\ Len(rows) = 2 /\ before[p] = rows
        /\ SameTupleRows(rows[1], rows[2])
        /\ rows[1].observation_time = 0 /\ rows[2].observation_time = 30
        /\ rows[1].value = TA.Value /\ rows[2].value = TB.Value
        /\ Len(outcomes[p]) = 1 /\ outcomes[p][1].result = "discarded"
        /\ SameTuple(rows[2], Dev(p), Cand(p, 1))
        /\ Cand(p, 1).ObservationTime = 45 /\ Cand(p, 1).Value = TB.Value

\* C25: discards are local in time.  With requests served one at a time, in
\* any arrival order: a candidate is discarded only if a stored row of its
\* tuple with its triple has an observation time less than 60 s away from the
\* candidate's, before or after; a row 60 s or more after the candidate's time
\* does not make the gate drop it.
C25_DiscardsLocalInTime ==
    \A p \in Procs : pc[p] # "idle" =>
        \A i \in DOMAIN outcomes[p] :
            outcomes[p][i].result = "discarded"
              => \E j \in DOMAIN TableAt(p, i) :
                    /\ SameTuple(TableAt(p, i)[j], Dev(p), Cand(p, i))
                    /\ SameTriple(TableAt(p, i)[j], Cand(p, i))
                    /\ TableAt(p, i)[j].observation_time < Cand(p, i).ObservationTime + 60
                    /\ Cand(p, i).ObservationTime < TableAt(p, i)[j].observation_time + 60

\* C26: AddEntity fails cleanly.  When AddEntity returns an error (createEntity
\* answers 400 to a body it could unmarshal), the stored entities and
\* relations are what they were before the call.
C26_AddEntityFailsCleanly ==
    [][\A p \in Procs : \A e \in EntitiesPosted :
          (IsAddEntity(p, e) /\ status'[p] = StatusBadRequest)
            => (entity' = entity /\ relation' = relation)]_vars

\* C27: GetChildEntities terminates.  Whatever entities and relations the
\* calls of AddEntity have left, an entity that is part of itself or two
\* entities that are part of each other included, the recursive query of
\* GetChildEntities, once started, comes to its end and the call returns.
C27_GetChildEntitiesTerminates ==
    \A p \in Procs : (pc[p] = "GetChildEntities") ~> (pc[p] = "done")

\* C28: single parent.  After any sequence of AddEntity calls every entity
\* has at most one parent relation, so that the IsPartOf GetEntity and
\* GetEntities return for it is determined by what is stored.
C28_SingleParent ==
    /\ \A r1, r2 \in relation : r1[2] = r2[2] => r1 = r2
    /\ \A n \in DOMAIN entity :
         Cardinality(GetEntity(entity, relation, entity[n].entity_id, entity[n].entity_type)) = 1

\* request p named a root (root[id] and root[type] both given) and was
\* answered 200
RootNamedAnswered(p) ==
    /\ pc[p] = "done" /\ status[p] = StatusOK
    /\ "rootId" \in DOMAIN listing[p]
    /\ listing[p].rootId # "" /\ listing[p].rootType # ""

\* C29: a rooted listing is scoped.  When a GET of buildings or sensors names
\* a root, every entity of the response is a descendant of that root, and
\* page and size have no effect: the response is the whole result and has no
\* view.  When the root named is not stored, the response holds no entity.
C29_RootedListingScoped ==
    \A p \in Procs : RootNamedAnswered(p) =>
        LET member == Deref(listing[p].response).Member
        IN  IF getRootEntity(listing[p].rootId, listing[p].rootType) = {}
            THEN member = <<>>
            ELSE /\ \A i \in DOMAIN member :
                      \E n \in Descendants(RootNode(p)) :
                          /\ entity[n].entity_id = member[i].Id
                          /\ entity[n].entity_type = member[i].Type
                 /\ \A n \in Descendants(RootNode(p)) :
                      entity[n].entity_type = listing[p].what
                        => \E i \in DOMAIN member : member[i].Id = entity[n].entity_id
                 /\ Deref(listing[p].response).View = Nil

\* the absolute value
Abs(n) == IF n < 0 THEN 0 - n ELSE n

\* f is v rounded to d decimal digits, to the nearest and halves away from
\* zero: f has d decimal digits, lies no more than half a unit of the last
\* digit from v, and lies beyond v when it lies half a unit from it
IsRounded(f, v, d) ==
    /\ (f * Pow10(d)) % Milli = 0
    /\ 2 * Abs(f - v) * Pow10(d) <= Milli
    /\ 2 * Abs(f - v) * Pow10(d) = Milli => Abs(f) > Abs(v)

====
